---- MODULE Spec2Model ----
(***************************************************************************)
(* State-machine model of deobfuscator2.js: optimize(jsCode) parses the    *)
(* source, runs the three traversals (visitorDetectEncrypt, visitor,       *)
(* visitorBeautify) and context.cleanup() over one shared AST, with the    *)
(* Analysis Cache local to the call and the host evaluation scope (the     *)
(* Node.js `global` object used through global.eval) shared by every call  *)
(* of the process.                                                         *)
(*                                                                         *)
(* AST nodes are records carrying the Babel field names.  A NodePath is    *)
(* the address of its node: a sequence of <<field, index>> steps from the  *)
(* Program node (index 0 for a single-node field).  Addresses stay stable  *)
(* under mutation: a removed node leaves a "Removed" marker (path.removed, *)
(* path.node null) and a node replaced by several nodes leaves an "Inline" *)
(* holder whose body is spliced into the enclosing list by Flat.           *)
(***************************************************************************)
EXTENDS Integers, Sequences, FiniteSets, TLC

\* ------------------------------------------------------------------ bounds
\* optimize calls made by one process
MaxCalls == 2

\* ------------------------------------------------------------ AST builders
Null == [type |-> "Null"]
Removed == [type |-> "Removed"]
Inline(nodes) == [type |-> "Inline", body |-> nodes]
Program(stmts) == [type |-> "Program", body |-> stmts]
Identifier(n) == [type |-> "Identifier", name |-> n]
\* raw is the cached source form kept in node.extra.raw: "hex" or "dec" for a
\* parsed literal, "none" for a node built by types.numericLiteral
NumericLiteral(v, r) == [type |-> "NumericLiteral", value |-> v, raw |-> r]
StringLiteral(v) == [type |-> "StringLiteral", value |-> v]
BooleanLiteral(v) == [type |-> "BooleanLiteral", value |-> v]
NullLiteral == [type |-> "NullLiteral"]
BigIntLiteral(v) == [type |-> "BigIntLiteral", value |-> v]
ArrayExpression(es) == [type |-> "ArrayExpression", elements |-> es]
\* types.objectProperty(key, value, computed)
objectProperty(k, v, c) ==
    [type |-> "ObjectProperty", key |-> k, value |-> v, computed |-> c]
ObjectProperty(k, v) == objectProperty(k, v, FALSE)
ObjectExpression(ps) == [type |-> "ObjectExpression", properties |-> ps]
VariableDeclarator(i, e) == [type |-> "VariableDeclarator", id |-> i, init |-> e]
VariableDeclaration(ds) ==
    [type |-> "VariableDeclaration", kind |-> "var", declarations |-> ds]
Var(n, e) == VariableDeclaration(<<VariableDeclarator(Identifier(n), e)>>)
Let(n, e) == [Var(n, e) EXCEPT !.kind = "let"]
BlockStatement(ss) == [type |-> "BlockStatement", body |-> ss]
ReturnStatement(e) == [type |-> "ReturnStatement", argument |-> e]
ExpressionStatement(e) == [type |-> "ExpressionStatement", expression |-> e]
FunctionDeclaration(n, ps, ss) ==
    [type |-> "FunctionDeclaration", id |-> Identifier(n), params |-> ps,
     body |-> BlockStatement(ss)]
FunctionExpression(ps, ss) ==
    [type |-> "FunctionExpression", params |-> ps, body |-> BlockStatement(ss)]
SequenceExpression(es) == [type |-> "SequenceExpression", expressions |-> es]
AssignmentExpression(l, r) ==
    [type |-> "AssignmentExpression", left |-> l, right |-> r]
CallExpression(c, as) == [type |-> "CallExpression", callee |-> c, arguments |-> as]
MemberExpression(o, p, c) ==
    [type |-> "MemberExpression", object |-> o, property |-> p, computed |-> c]
BinaryExpression(op, l, r) ==
    [type |-> "BinaryExpression", operator |-> op, left |-> l, right |-> r]
UnaryExpression(op, e) ==
    [type |-> "UnaryExpression", operator |-> op, argument |-> e]
UpdateExpression(op, e) ==
    [type |-> "UpdateExpression", operator |-> op, argument |-> e]
WhileStatement(t, b) == [type |-> "WhileStatement", test |-> t, body |-> b]
ConditionalExpression(t, c, a) ==
    [type |-> "ConditionalExpression", test |-> t, consequent |-> c,
     alternate |-> a]
IfStatement(t, c, a) ==
    [type |-> "IfStatement", test |-> t, consequent |-> c, alternate |-> a]
SwitchCase(t, ss) == [type |-> "SwitchCase", test |-> t, consequent |-> ss]
SwitchStatement(d, cs) == [type |-> "SwitchStatement", discriminant |-> d, cases |-> cs]
BreakStatement == [type |-> "BreakStatement"]
ContinueStatement == [type |-> "ContinueStatement"]

\* ------------------------------------------------------- generic tree walk
\* child fields of a node type in Babel's visiting order; TRUE marks a list
VisitorKeys(t) ==
    CASE t \in {"Program", "Inline", "BlockStatement"} -> <<<<"body", TRUE>>>>
      [] t = "VariableDeclaration" -> <<<<"declarations", TRUE>>>>
      [] t = "VariableDeclarator" -> <<<<"id", FALSE>>, <<"init", FALSE>>>>
      [] t = "ArrayExpression" -> <<<<"elements", TRUE>>>>
      [] t = "ObjectExpression" -> <<<<"properties", TRUE>>>>
      [] t = "ObjectProperty" -> <<<<"key", FALSE>>, <<"value", FALSE>>>>
      [] t = "FunctionDeclaration" ->
            <<<<"id", FALSE>>, <<"params", TRUE>>, <<"body", FALSE>>>>
      [] t = "FunctionExpression" -> <<<<"params", TRUE>>, <<"body", FALSE>>>>
      [] t = "ReturnStatement" -> <<<<"argument", FALSE>>>>
      [] t = "ExpressionStatement" -> <<<<"expression", FALSE>>>>
      [] t = "SequenceExpression" -> <<<<"expressions", TRUE>>>>
      [] t = "AssignmentExpression" -> <<<<"left", FALSE>>, <<"right", FALSE>>>>
      [] t = "CallExpression" -> <<<<"callee", FALSE>>, <<"arguments", TRUE>>>>
      [] t = "MemberExpression" -> <<<<"object", FALSE>>, <<"property", FALSE>>>>
      [] t = "BinaryExpression" -> <<<<"left", FALSE>>, <<"right", FALSE>>>>
      [] t \in {"UpdateExpression", "UnaryExpression"} -> <<<<"argument", FALSE>>>>
      [] t = "WhileStatement" -> <<<<"test", FALSE>>, <<"body", FALSE>>>>
      [] t \in {"ConditionalExpression", "IfStatement"} ->
            <<<<"test", FALSE>>, <<"consequent", FALSE>>, <<"alternate", FALSE>>>>
      [] t = "SwitchStatement" -> <<<<"discriminant", FALSE>>, <<"cases", TRUE>>>>
      [] t = "SwitchCase" -> <<<<"test", FALSE>>, <<"consequent", TRUE>>>>
      [] OTHER -> <<>>

\* a node Babel visits: neither an absent child nor a removed one
Live(n) == n.type \notin {"Null", "Removed"}

\* [i \in 1..n |-> e] as a tuple, its elements computed once
Tuple(f) == f \o <<>>
RECURSIVE FlatFrom(_, _)
FlatFrom(ss, i) == IF i > Len(ss) THEN <<>> ELSE ss[i] \o FlatFrom(ss, i + 1)
FlatSeq(ss) == FlatFrom(Tuple(ss), 1)

\* addresses (one step each) of the live children of a node, in visiting order
ChildSteps(n) ==
    LET OfList(f, l) ==
            FlatSeq([i \in 1..Len(l) |->
                        IF Live(l[i]) THEN <<<<f, i>>>> ELSE <<>>])
        OfKey(k) ==
            IF k[2] THEN OfList(k[1], n[k[1]])
            ELSE IF Live(n[k[1]]) THEN <<<<k[1], 0>>>> ELSE <<>>
        OfKeys(ks) == FlatSeq([j \in 1..Len(ks) |-> OfKey(ks[j])])
    IN OfKeys(VisitorKeys(n.type))

\* path.node
RECURSIVE Get(_, _)
Get(n, path) ==
    IF path = <<>> THEN n
    ELSE LET Child(f, i) == IF i = 0 THEN n[f] ELSE n[f][i]
         IN Get(Child(path[1][1], path[1][2]), Tail(path))

\* the tree with the node at path replaced by new
RECURSIVE Put(_, _, _)
Put(n, path, new) ==
    IF path = <<>> THEN new
    ELSE LET In(f, i) ==
                 IF i = 0
                 THEN [n EXCEPT ![f] = Put(@, Tail(path), new)]
                 ELSE [n EXCEPT ![f] = [@ EXCEPT ![i] = Put(@, Tail(path), new)]]
         IN In(path[1][1], path[1][2])

Front(path) == SubSeq(path, 1, Len(path) - 1)
Last(path) == path[Len(path)]
\* a is b or an ancestor of b
Prefix(a, b) == Len(a) <= Len(b) /\ SubSeq(b, 1, Len(a)) = a

\* position of a step among the children of a node of type t
StepOrd(t, s) ==
    LET KeyIndex(ks) == CHOOSE i \in DOMAIN ks : ks[i][1] = s[1]
    IN <<KeyIndex(VisitorKeys(t)), s[2]>>
StepBefore(t, a, b) ==
    LET Before(x, y) == x[1] < y[1] \/ (x[1] = y[1] /\ x[2] < y[2])
    IN Before(StepOrd(t, a), StepOrd(t, b))

Enter(path) == [path |-> path, ev |-> "enter"]
Exit(path) == [path |-> path, ev |-> "exit"]
Done == [path |-> <<>>, ev |-> "done"]

\* the traversal event that follows the exit of the node at path: its next
\* live sibling, else the exit of its parent
AfterExit(root, path) ==
    IF path = <<>> THEN Done
    ELSE LET Later(par) ==
                 SelectSeq(ChildSteps(par),
                           LAMBDA s : StepBefore(par.type, Last(path), s))
             First(later) ==
                 IF later = <<>> THEN Exit(Front(path))
                 ELSE Enter(Front(path) \o <<later[1]>>)
         IN First(Later(Get(root, Front(path))))

\* depth-first successor of a traversal event
StepEvent(root, e) ==
    IF e.ev = "enter"
    THEN LET First(cs) ==
                 IF cs = <<>> THEN Exit(e.path) ELSE Enter(e.path \o <<cs[1]>>)
         IN First(ChildSteps(Get(root, e.path)))
    ELSE AfterExit(root, e.path)

\* path.parentPath: the nearest enclosing node (an Inline holder is not a node)
RECURSIVE ParentPath(_, _)
ParentPath(root, path) ==
    IF path = <<>> THEN <<>>
    ELSE IF Get(root, Front(path)).type = "Inline"
         THEN ParentPath(root, Front(path))
         ELSE Front(path)

\* the nodes of a statement list as Babel holds them: removed nodes are gone
\* and the nodes that replaced one node stand in its place
RECURSIVE Flat(_)
Flat(l) ==
    IF l = <<>> THEN <<>>
    ELSE (IF l[1].type \in {"Removed", "Null"} THEN <<>>
          ELSE IF l[1].type = "Inline" THEN Flat(l[1].body)
          ELSE <<l[1]>>) \o Flat(Tail(l))

\* the paths of the list `field` of the node at base, in list order
RECURSIVE ElemPaths(_, _, _)
ElemPaths(root, base, field) ==
    LET Of(l, i) ==
            IF l[i].type \in {"Removed", "Null"} THEN <<>>
            ELSE IF l[i].type = "Inline"
                 THEN ElemPaths(root, base \o <<<<field, i>>>>, "body")
                 ELSE <<base \o <<<<field, i>>>>>>
        All(l) == FlatSeq([i \in 1..Len(l) |-> Of(l, i)])
    IN All(Get(root, base)[field])

\* the field of the parent node that holds the node at path
RECURSIVE ListKey(_, _)
ListKey(root, path) ==
    IF Get(root, Front(path)).type = "Inline"
    THEN ListKey(root, Front(path))
    ELSE Last(path)[1]

Reverse(s) == Tuple([i \in 1..Len(s) |-> s[Len(s) + 1 - i]])

\* every path of the container that holds path, in order ([] when the
\* container is a single-node field, whose key is not a number)
SiblingPaths(root, path) ==
    IF path = <<>> \/ Last(path)[2] = 0 THEN <<>>
    ELSE ElemPaths(root, ParentPath(root, path), ListKey(root, path))
IndexIn(s, x) == CHOOSE i \in 1..Len(s) : s[i] = x
\* path.getAllPrevSiblings(): nearest sibling first
getAllPrevSiblings(root, path) ==
    LET Before(sp) ==
            IF \A i \in 1..Len(sp) : sp[i] # path THEN <<>>
            ELSE Reverse(SubSeq(sp, 1, IndexIn(sp, path) - 1))
    IN Before(SiblingPaths(root, path))
\* path.getAllNextSiblings()
getAllNextSiblings(root, path) ==
    LET After(sp) ==
            IF \A i \in 1..Len(sp) : sp[i] # path THEN <<>>
            ELSE SubSeq(sp, IndexIn(sp, path) + 1, Len(sp))
    IN After(SiblingPaths(root, path))

\* path.find(pred): the path itself or its nearest ancestor whose node
\* satisfies Pred; <<"none">> stands for null
NoPath == <<<<"none", 0>>>>
\* the path itself and its ancestors, innermost first
SelfAndAncestors(root, path) ==
    SelectSeq(Tuple([i \in 1..Len(path) + 1 |->
                         SubSeq(path, 1, Len(path) + 1 - i)]),
              LAMBDA q : Get(root, q).type # "Inline")
FindUp(root, path, Pred(_)) ==
    LET First(hits) == IF hits = <<>> THEN NoPath ELSE hits[1]
    IN First(SelectSeq(SelfAndAncestors(root, path),
                       LAMBDA q : Pred(Get(root, q))))

\* a copy of n with G applied to each child node
MapChildren(n, G(_)) ==
    LET Map(ks) ==
            [f \in DOMAIN n |->
                IF \A j \in DOMAIN ks : ks[j][1] # f THEN n[f]
                ELSE IF \E j \in DOMAIN ks : ks[j][1] = f /\ ks[j][2]
                THEN Tuple([i \in 1..Len(n[f]) |-> G(n[f][i])])
                ELSE G(n[f])]
    IN Map(VisitorKeys(n.type))

\* the child nodes of n, absent and removed ones included
Children(n) ==
    LET Of(ks) == FlatSeq([j \in 1..Len(ks) |->
                     IF ks[j][2] THEN n[ks[j][1]] ELSE <<n[ks[j][1]]>>])
    IN Of(VisitorKeys(n.type))

RECURSIVE SumSeq(_)
SumSeq(s) == IF s = <<>> THEN 0 ELSE Head(s) + SumSeq(Tail(s))

\* ---------------------------------------------------------------- utils
\* functions keyed by name (JS objects used as maps)
\* (an assignment that drops the other keys of the object)
Upd_Only(f, k, v) == [x \in {k} |-> v]
Upd(f, k, v) == [x \in DOMAIN f \cup {k} |-> IF x = k THEN v ELSE f[x]]
Del(f, k) == [x \in DOMAIN f \ {k} |-> f[x]]
EmptyMap == [x \in {} |-> 0]

\* strings of the model's vocabulary that /^[A-Za-z_$][\w$]*$/ rejects
NotVariableNames ==
    {"", "0", "1", "1|0", "|",
     "abcdefghijklmnopqrstuvwxyzABCDEFGHIJKLMNOPQRSTUVWXYZ0123456789+/="}
isValidVariableName(name) == name \notin NotVariableNames
\* strings of the model's vocabulary that /^_0x[a-f0-9]+$/i accepts
HexVariableNames == {"_0x1f"}
isHexVariableName(name) == name \in HexVariableNames

LiteralTypes ==
    {"NumericLiteral", "StringLiteral", "BooleanLiteral", "NullLiteral",
     "BigIntLiteral"}
\* node.type.endsWith('Literal')
IsLiteralType(t) == t \in LiteralTypes

\* utils.getStringLiteralValue for the two node types it accepts
getStringLiteralValue(node) ==
    IF node.type = "StringLiteral" THEN node.value ELSE node.name

\* a search that never finds the property
findProperty_Never(properties, name) == Null
\* utils.findProperty: the first property whose key is named name, else Null
findProperty(properties, name) ==
    LET First(hits) == IF hits = <<>> THEN Null ELSE hits[1]
    IN First(SelectSeq(properties, LAMBDA q :
                q.key.type \in {"StringLiteral", "Identifier"}
                /\ getStringLiteralValue(q.key) = name))

\* utils.indexOfArgument, 0-based as in the source; -1 when absent
indexOfArgument(arguments_, argumentName) ==
    LET First(hits) ==
            IF hits = {} THEN -1
            ELSE (CHOOSE i \in hits : \A j \in hits : i <= j) - 1
    IN First({i \in 1..Len(arguments_) :
                 arguments_[i].type = "Identifier"
                 /\ arguments_[i].name = argumentName})

\* ------------------------------------------------- host evaluation scope
\* JavaScript values as far as typeof and the decoders tell them apart
VNum(v) == [k |-> "number", v |-> v]
VNaN == [k |-> "nan"]
VStr(v) == [k |-> "string", s |-> v]
VBool(v) == [k |-> "boolean", b |-> v]
VUndef == [k |-> "undefined"]
VObj == [k |-> "object"]
VBig == [k |-> "bigint"]
VFn(node) == [k |-> "function", node |-> node]
VBuiltin(n) == [k |-> "builtin", name |-> n]
Throw == [k |-> "throw"]

\* names the host scope defines before any optimize call
Builtins ==
    [n \in {"undefined", "parseInt", "eval"} |->
        IF n = "undefined" THEN VUndef ELSE VBuiltin(n)]

\* deepest chain of nested host calls before the engine's stack overflows
HostFuel == 4

\* utils.getLiteralNode
getLiteralNode(val) ==
    CASE val.k = "number" -> NumericLiteral(val.v, "none")
      [] val.k = "nan" -> NumericLiteral(0, "nan")
      [] val.k = "string" -> StringLiteral(val.s)
      [] val.k = "boolean" -> BooleanLiteral(val.b)
      [] OTHER -> Null

\* value of `l op r` for two evaluated operands
BinaryValue(op, l, r) ==
    CASE l.k = "bigint" /\ r.k = "bigint" ->
            IF op \in {"===", "!=="} THEN VBool(op = "===") ELSE VBig
      [] op = "===" -> VBool(l = r /\ l.k \notin {"nan", "object", "function"})
      [] op = "!==" -> VBool(~(l = r /\ l.k \notin {"nan", "object", "function"}))
      [] l.k = "number" /\ r.k = "number" /\ op = "+" -> VNum(l.v + r.v)
      [] l.k = "number" /\ r.k = "number" /\ op = "-" -> VNum(l.v - r.v)
      [] l.k = "number" /\ r.k = "number" /\ op = "*" -> VNum(l.v * r.v)
      [] l.k = "number" /\ r.k = "number" /\ op = "/"
            /\ r.v # 0 /\ l.v % r.v = 0 -> VNum(l.v \div r.v)
      [] l.k = "string" /\ r.k = "string" /\ op = "+" -> VStr(l.s \o r.s)
      [] l.k = "boolean" /\ r.k = "boolean" /\ op \in {"+", "-", "*"} ->
            LET a == IF l.b THEN 1 ELSE 0
                b == IF r.b THEN 1 ELSE 0
            IN VNum(IF op = "+" THEN a + b ELSE IF op = "-" THEN a - b ELSE a * b)
      [] OTHER -> VNaN

\* Evaluation of an expression by the host engine (global.eval): g is the
\* global object, env the local bindings of the running function.  The
\* result carries the value (Throw for a thrown error) and the global
\* object with the assignments made so far.
RECURSIVE Eval(_, _, _, _)
RECURSIVE EvalList(_, _, _, _)
RECURSIVE CallFn(_, _, _, _)
RECURSIVE ExecBlock(_, _, _, _)

EvalList(nodes, g, env, fuel) ==
    IF nodes = <<>> THEN [vs |-> <<>>, ok |-> TRUE, g |-> g]
    ELSE LET Cons(v, rest) ==
                 [vs |-> <<v>> \o rest.vs, ok |-> rest.ok, g |-> rest.g]
             Then(r) ==
                 IF r.v.k = "throw" THEN [vs |-> <<>>, ok |-> FALSE, g |-> r.g]
                 ELSE Cons(r.v, EvalList(Tail(nodes), r.g, env, fuel))
         IN Then(Eval(Head(nodes), g, env, fuel))

Eval(node, g, env, fuel) ==
    LET Val(v) == [v |-> v, g |-> g]
        OfList(r) ==
            [v |-> IF ~r.ok THEN Throw
                   ELSE IF node.type = "ArrayExpression" THEN VObj
                   ELSE r.vs[Len(r.vs)],
             g |-> r.g]
        OfObject(r) == [v |-> IF r.ok THEN VObj ELSE Throw, g |-> r.g]
        Assign(r) ==
            IF r.v.k = "throw" \/ node.left.type # "Identifier"
               \/ node.left.name \in DOMAIN env
            THEN r
            ELSE [v |-> r.v, g |-> Upd(r.g, node.left.name, r.v)]
        Binary(r) ==
            IF ~r.ok THEN [v |-> Throw, g |-> r.g]
            ELSE IF node.operator = "/" /\ r.vs[1].k = "bigint"
                    /\ node.right.type = "BigIntLiteral"
                    /\ node.right.value = 0
            THEN [v |-> Throw, g |-> r.g]
            ELSE [v |-> BinaryValue(node.operator, r.vs[1], r.vs[2]),
                  g |-> r.g]
        Unary(r) ==
            IF r.v.k = "number" /\ node.operator = "-"
            THEN [v |-> VNum(0 - r.v.v), g |-> r.g]
            ELSE IF r.v.k = "throw" THEN r
            ELSE [v |-> VNaN, g |-> r.g]
        Member(r) ==
            [v |-> IF r.v.k \in {"throw", "undefined"} THEN Throw ELSE VUndef,
             g |-> r.g]
        MethodOn(ro, ra) ==
            IF ro.v.k = "string"
               /\ node.callee.property.type \in {"Identifier", "StringLiteral"}
               /\ getStringLiteralValue(node.callee.property) = "split"
            THEN [v |-> IF ra.ok THEN VObj ELSE Throw, g |-> ra.g]
            ELSE [v |-> Throw, g |-> ro.g]
        Method(ro) == MethodOn(ro, EvalList(node.arguments, ro.g, env, fuel))
        Apply(rc, ra) ==
            IF rc.v.k = "throw" THEN rc
            ELSE IF ~ra.ok THEN [v |-> Throw, g |-> ra.g]
            ELSE IF rc.v.k = "function"
            THEN CallFn(rc.v.node, ra.vs, ra.g, fuel)
            ELSE IF rc.v.k = "builtin" /\ rc.v.name = "parseInt"
            THEN [v |-> IF ra.vs # <<>> /\ ra.vs[1].k = "number"
                        THEN ra.vs[1] ELSE VNaN,
                  g |-> ra.g]
            ELSE [v |-> Throw, g |-> ra.g]
        Call(rc) == Apply(rc, EvalList(node.arguments, rc.g, env, fuel))
    IN CASE node.type = "NumericLiteral" -> Val(VNum(node.value))
         [] node.type = "StringLiteral" -> Val(VStr(node.value))
         [] node.type = "BooleanLiteral" -> Val(VBool(node.value))
         [] node.type = "NullLiteral" -> Val(VObj)
         [] node.type = "BigIntLiteral" -> Val(VBig)
         [] node.type = "FunctionExpression" -> Val(VFn(node))
         [] node.type = "Identifier" ->
              IF node.name \in DOMAIN env THEN Val(env[node.name])
              ELSE IF node.name \in DOMAIN g THEN Val(g[node.name])
              ELSE Val(Throw)
         [] node.type = "ArrayExpression" ->
              OfList(EvalList(node.elements, g, env, fuel))
         [] node.type = "SequenceExpression" ->
              OfList(EvalList(node.expressions, g, env, fuel))
         [] node.type = "ObjectExpression" ->
              OfObject(EvalList(Tuple([i \in 1..Len(node.properties) |->
                                         node.properties[i].value]),
                                g, env, fuel))
         [] node.type = "AssignmentExpression" ->
              Assign(Eval(node.right, g, env, fuel))
         [] node.type = "BinaryExpression" ->
              Binary(EvalList(<<node.left, node.right>>, g, env, fuel))
         [] node.type = "UnaryExpression" ->
              Unary(Eval(node.argument, g, env, fuel))
         [] node.type = "MemberExpression" ->
              Member(Eval(node.object, g, env, fuel))
         [] node.type = "CallExpression" ->
              IF node.callee.type = "MemberExpression"
              THEN Method(Eval(node.callee.object, g, env, fuel))
              ELSE Call(Eval(node.callee, g, env, fuel))
         [] OTHER -> Val(VUndef)

\* a call of the function node fn with evaluated arguments
CallFn(fn, args, g, fuel) ==
    IF fuel = 0 THEN [v |-> Throw, g |-> g]
    ELSE LET Bind(ps) ==
                 [n \in {ps[i].name : i \in 1..Len(ps)} |->
                     LET i == CHOOSE j \in 1..Len(ps) : ps[j].name = n
                     IN IF i <= Len(args) THEN args[i] ELSE VUndef]
         IN ExecBlock(Flat(fn.body.body), g, Bind(fn.params), fuel - 1)

\* the statements of a function body; the value is the returned one
ExecBlock(stmts, g, env, fuel) ==
    IF stmts = <<>> THEN [v |-> VUndef, g |-> g]
    ELSE LET Then(r) ==
                 IF r.v.k = "throw" THEN r
                 ELSE ExecBlock(Tail(stmts), r.g, env, fuel)
             Inits(ds) ==
                 Tuple([i \in 1..Len(ds) |->
                          IF ds[i].init.type = "Null"
                          THEN Identifier("undefined") ELSE ds[i].init])
             Declared(ds, r) ==
                 [n \in DOMAIN env \cup {ds[i].id.name : i \in 1..Len(ds)} |->
                     IF \E i \in 1..Len(ds) : ds[i].id.name = n
                     THEN r.vs[CHOOSE i \in 1..Len(ds) : ds[i].id.name = n]
                     ELSE env[n]]
             ThenVar(ds, r) ==
                 IF ~r.ok THEN [v |-> Throw, g |-> r.g]
                 ELSE ExecBlock(Tail(stmts), r.g, Declared(ds, r), fuel)
             Stmt(h) ==
                 CASE h.type = "ReturnStatement" ->
                        IF h.argument.type = "Null" THEN [v |-> VUndef, g |-> g]
                        ELSE Eval(h.argument, g, env, fuel)
                   [] h.type = "ExpressionStatement" ->
                        Then(Eval(h.expression, g, env, fuel))
                   [] h.type = "VariableDeclaration" ->
                        ThenVar(h.declarations,
                                EvalList(Inits(h.declarations), g, env, fuel))
                   [] OTHER -> ExecBlock(Tail(stmts), g, env, fuel)
         IN Stmt(Head(stmts))

\* global.eval of a script: function declarations and var names are
\* instantiated first, then the statements run in order until one throws.
\* A var declaration assigns to the global object; a let or const
\* declaration binds its names in env, the lexical environment of the
\* script, which is gone when the evaluation ends.
RECURSIVE RunScript(_, _, _)
RunScript(stmts, g, env) ==
    IF stmts = <<>> THEN [v |-> VUndef, g |-> g]
    ELSE LET Assigns(ds) ==
                 Tuple([i \in 1..Len(ds) |->
                          AssignmentExpression(ds[i].id, ds[i].init)])
             Inits(ds) ==
                 Tuple([i \in 1..Len(ds) |->
                          IF ds[i].init.type = "Null"
                          THEN Identifier("undefined") ELSE ds[i].init])
             Lexical(ds, r1) ==
                 [n \in DOMAIN env \cup {ds[i].id.name : i \in 1..Len(ds)} |->
                     IF \E i \in 1..Len(ds) : ds[i].id.name = n
                     THEN r1.vs[CHOOSE i \in 1..Len(ds) : ds[i].id.name = n]
                     ELSE env[n]]
             OfVar(r1) ==
                 IF r1.ok THEN RunScript(Tail(stmts), r1.g, env)
                 ELSE [v |-> Throw, g |-> r1.g]
             OfLet(ds, r1) ==
                 IF r1.ok THEN RunScript(Tail(stmts), r1.g, Lexical(ds, r1))
                 ELSE [v |-> Throw, g |-> r1.g]
             Then(r) ==
                 IF r.v.k = "throw" THEN r ELSE RunScript(Tail(stmts), r.g, env)
             Stmt(h) ==
                 CASE h.type = "VariableDeclaration" /\ h.kind = "var" ->
                        OfVar(EvalList(
                            Assigns(SelectSeq(h.declarations,
                                      LAMBDA d : d.init.type # "Null")),
                            g, env, HostFuel))
                   [] h.type = "VariableDeclaration" ->
                        OfLet(h.declarations,
                              EvalList(Inits(h.declarations), g, env, HostFuel))
                   [] h.type = "ExpressionStatement" ->
                        Then(Eval(h.expression, g, env, HostFuel))
                   [] OTHER -> RunScript(Tail(stmts), g, env)
         IN Stmt(Head(stmts))

RECURSIVE Hoist(_, _)
Hoist(stmts, g) ==
    IF stmts = <<>> THEN g
    ELSE LET Stmt(h) ==
                 CASE h.type = "FunctionDeclaration" ->
                        Upd(g, h.id.name, VFn(h))
                   [] h.type = "VariableDeclaration" /\ h.kind = "var" ->
                        [n \in DOMAIN g \cup {h.declarations[i].id.name :
                                     i \in 1..Len(h.declarations)} |->
                            IF n \in DOMAIN g THEN g[n] ELSE VUndef]
                   [] OTHER -> g
         IN Hoist(Tail(stmts), Stmt(Head(stmts)))

globalEval(stmts, g) == RunScript(stmts, Hoist(stmts, g), EmptyMap)

\* the two String.prototype.replace calls of addEncryptFunction, which cut
\* the text of the anti-tamper patterns out of the code to evaluate
TamperPattern1 == "\\x5cw+\\x20*\\x5c(\\x5c)\\x20*{\\x5cw+\\x20*"
TamperPattern2 == "[\\x27|\\x22].+[\\x27|\\x22];?\\x20*}"
RECURSIVE StripChecks(_)
StripChecks(n) ==
    IF n.type = "StringLiteral"
    THEN IF n.value = TamperPattern1 THEN StringLiteral("")
         ELSE IF n.value = TamperPattern2 THEN StringLiteral(".")
         ELSE n
    ELSE MapChildren(n, LAMBDA c : StripChecks(c))

\* ------------------------------------------------------------------ scope
\* every path of the tree below and including path, parents first
RECURSIVE PathsFrom(_, _)
PathsFrom(root, path) ==
    LET Below(cs) ==
            FlatSeq([i \in 1..Len(cs) |-> PathsFrom(root, path \o <<cs[i]>>)])
    IN <<path>> \o Below(ChildSteps(Get(root, path)))

\* TRUE when path still leads to a node of the tree
RECURSIVE Reach(_, _)
Reach(n, path) ==
    IF path = <<>> THEN n.type # "Removed"
    ELSE LET In(f, i) ==
                 /\ f \in DOMAIN n
                 /\ IF i = 0 THEN Reach(n[f], Tail(path))
                    ELSE i <= Len(n[f]) /\ Reach(n[f][i], Tail(path))
         IN In(path[1][1], path[1][2])

\* number of referencing identifiers named name below n (binding.referencePaths)
RECURSIVE RefCount(_, _)
RefCount(n, name) ==
    LET Sum(l) == SumSeq(Tuple([i \in 1..Len(l) |-> RefCount(l[i], name)]))
    IN CASE n.type = "Identifier" -> IF n.name = name THEN 1 ELSE 0
         [] n.type = "VariableDeclarator" -> RefCount(n.init, name)
         [] n.type \in {"FunctionDeclaration", "FunctionExpression"} ->
              RefCount(n.body, name)
         [] n.type = "MemberExpression" ->
              RefCount(n.object, name)
              + (IF n.computed THEN RefCount(n.property, name) ELSE 0)
         [] n.type = "ObjectProperty" -> RefCount(n.value, name)
         [] n.type = "AssignmentExpression" ->
              (IF n.left.type = "Identifier" THEN 0 ELSE RefCount(n.left, name))
              + RefCount(n.right, name)
         [] OTHER -> Sum(Children(n))

\* number of re-assignments of name below n (binding.constantViolations),
\* the redeclarations not counted
RECURSIVE AssignCount(_, _)
AssignCount(n, name) ==
    (IF n.type \in {"AssignmentExpression", "UpdateExpression"}
        /\ (IF n.type = "AssignmentExpression" THEN n.left ELSE n.argument)
              = Identifier(name)
     THEN 1 ELSE 0)
    + LET Sum(l) == SumSeq(Tuple([i \in 1..Len(l) |-> AssignCount(l[i], name)]))
      IN Sum(Children(n))

IsDeclaration(n) == n.type \in {"VariableDeclarator", "FunctionDeclaration"}
\* paths of the declarations of name, in source order
DeclPathsOf(root, name) ==
    LET Declares(n) == IsDeclaration(n) /\ n.id.name = name
    IN SelectSeq(PathsFrom(root, <<>>), LAMBDA q : Declares(Get(root, q)))
\* names declared at or below the node n
DeclaredIn(n) ==
    LET Names(ps) ==
            {Get(n, ps[i]).id.name :
                i \in {j \in 1..Len(ps) : IsDeclaration(Get(n, ps[j]))}}
    IN Names(PathsFrom(n, <<>>))

\* The bindings the scope crawl registers when the first traversal starts.
\* The inputs declare a name in one scope only, so one map serves for all
\* scopes; a second declaration of a name counts as a constant violation.
Crawl(root) ==
    LET Binding(name, declarations) ==
            [path |-> declarations[1],
             referencePaths |-> RefCount(root, name),
             constantViolations |->
                AssignCount(root, name) + Len(declarations) - 1]
    IN [name \in DeclaredIn(root) |-> Binding(name, DeclPathsOf(root, name))]

\* the names the crawl records as referenced, declared or assigned to
References(root) ==
    LET Names(ps) ==
            {Get(root, ps[i]).name :
                i \in {j \in 1..Len(ps) : Get(root, ps[j]).type = "Identifier"}}
    IN {n \in Names(PathsFrom(root, <<>>)) :
            \/ RefCount(root, n) > 0
            \/ AssignCount(root, n) > 0
            \/ n \in DeclaredIn(root)}

\* path.remove(): the node is taken out of the tree; removing the only
\* declarator of a declaration or the expression of an expression statement
\* removes the parent instead (Babel's removal hooks).  RemovedTop is the
\* path of the node that leaves the tree.
RECURSIVE RemovedTop(_, _)
RemovedTop(root, path) ==
    LET Hooked(pn, key) ==
            \/ key = "declarations" /\ pn.type = "VariableDeclaration"
               /\ Len(Flat(pn.declarations)) = 1
            \/ key = "expression" /\ pn.type = "ExpressionStatement"
        Top(par) ==
            IF path # <<>> /\ Hooked(Get(root, par), ListKey(root, path))
            THEN RemovedTop(root, par)
            ELSE path
    IN Top(ParentPath(root, path))
RemoveNode(root, path) == Put(root, RemovedTop(root, path), Removed)
\* scope.removeBinding for the names the removed node declares
Unbind(b, root, path) ==
    [name \in DOMAIN b \ DeclaredIn(Get(root, path)) |-> b[name]]

\* scope.rename(old, new): every identifier bound to old, property names
\* and keys left alone
RECURSIVE RenameTree(_, _, _)
RenameTree(n, old, new) ==
    CASE n.type = "Identifier" -> IF n.name = old THEN Identifier(new) ELSE n
      [] n.type = "MemberExpression" /\ ~n.computed ->
           [n EXCEPT !.object = RenameTree(@, old, new)]
      [] n.type = "ObjectProperty" -> [n EXCEPT !.value = RenameTree(@, old, new)]
      [] OTHER -> MapChildren(n, LAMBDA c : RenameTree(c, old, new))
rename(root, b, old, new) ==
    IF old \in DOMAIN b THEN RenameTree(root, old, new) ELSE root
renameBinding(b, old, new) ==
    IF old \in DOMAIN b THEN Upd(Del(b, old), new, b[old]) ELSE b

\* generate(ast): the program text, i.e. the tree without the markers of
\* removed nodes and with spliced lists
RECURSIVE generate(_)
generate(n) ==
    LET List(l) == Tuple([i \in 1..Len(l) |-> generate(l[i])])
        Of(ks) ==
            [f \in DOMAIN n |->
                IF \A j \in DOMAIN ks : ks[j][1] # f THEN n[f]
                ELSE IF \E j \in DOMAIN ks : ks[j][1] = f /\ ks[j][2]
                THEN List(Flat(n[f]))
                ELSE IF n[f].type = "Removed" THEN Null ELSE generate(n[f])]
    IN Of(VisitorKeys(n.type))

\* ----------------------------------------------------------------- inputs
Num(v) == NumericLiteral(v, "dec")
Base64a == "abcdefghijklmnopqrstuvwxyzABCDEFGHIJKLMNOPQRSTUVWXYZ0123456789+/="
Base64b == "ABCDEFGHIJKLMNOPQRSTUVWXYZabcdefghijklmnopqrstuvwxyz0123456789+/="
ParamsAB == <<Identifier("a"), Identifier("b")>>
CallStmt(f, as) == ExpressionStatement(CallExpression(Identifier(f), as))

\* var arr = ["x"];                       the support array
S_arr == Var("arr", ArrayExpression(<<StringLiteral("x")>>))
\* var arr = [nope()];                    a support array that fails to load
S_arrBad == Var("arr", ArrayExpression(<<CallExpression(Identifier("nope"), <<>>)>>))
\* var t;
S_noInit == Var("t", Null)
\* var _0x1f = 0x5;
S_num == Var("_0x1f", NumericLiteral(5, "hex"))
\* var m = _0x1f;
S_ref == Var("m", Identifier("_0x1f"))
\* var p = {};
S_objEmpty == Var("p", ObjectExpression(<<>>))
\* var p = {aaaaa: 1, "bbbbb": 2};
S_obj5 ==
    Var("p", ObjectExpression(<<ObjectProperty(Identifier("aaaaa"), Num(1)),
                                ObjectProperty(StringLiteral("bbbbb"), Num(2))>>))
\* var p = {name: "x"};
S_objName ==
    Var("p", ObjectExpression(<<ObjectProperty(Identifier("name"),
                                               StringLiteral("x"))>>))
\* function dec(a, b) { return (dec = function () { return <ret>; }, dec(a, b)); }
S_dec(ret) ==
    FunctionDeclaration("dec", ParamsAB,
        <<ReturnStatement(SequenceExpression(
            <<AssignmentExpression(Identifier("dec"),
                  FunctionExpression(<<>>, <<ReturnStatement(ret)>>)),
              CallExpression(Identifier("dec"), ParamsAB)>>))>>)
\* function w(a, b) { return <callee>(a, b); }
S_wrap(callee) ==
    FunctionDeclaration("w", ParamsAB,
        <<ReturnStatement(CallExpression(Identifier(callee), ParamsAB))>>)
\* (function (a, b) { <body> })(arr, 1);   the shuffler
S_shuf(body) ==
    ExpressionStatement(CallExpression(FunctionExpression(ParamsAB, body),
                                       <<Identifier("arr"), Num(1)>>))
\* sink(p, p.aaaaa);
S_use ==
    CallStmt("sink", <<Identifier("p"),
        MemberExpression(Identifier("p"), Identifier("aaaaa"), FALSE)>>)
\* while (true) { switch (k) { case "0": break; } break; }
S_while ==
    WhileStatement(BooleanLiteral(TRUE), BlockStatement(
        <<SwitchStatement(Identifier("k"),
              <<SwitchCase(StringLiteral("0"), <<BreakStatement>>)>>),
          BreakStatement>>))
\* var u, v;
S_two ==
    VariableDeclaration(<<VariableDeclarator(Identifier("u"), Null),
                          VariableDeclarator(Identifier("v"), Null)>>)
\* var t = sink(1);
S_unused == Var("t", CallExpression(Identifier("sink"), <<Num(1)>>))
\* (sink(1), sink(2));
S_seq ==
    ExpressionStatement(SequenceExpression(
        <<CallExpression(Identifier("sink"), <<Num(1)>>),
          CallExpression(Identifier("sink"), <<Num(2)>>)>>))
\* function b64(a, b) { return "abc...+/="; }
S_b64 == FunctionDeclaration("b64", ParamsAB, <<ReturnStatement(StringLiteral(Base64a))>>)

\* <obj>.<key> = <value>;
AssignStmt(obj, key, value) ==
    ExpressionStatement(AssignmentExpression(
        MemberExpression(Identifier(obj), Identifier(key), FALSE), value))
\* sink(p);
S_sinkP == CallStmt("sink", <<Identifier("p")>>)
\* var p = {}; p.aaaaa = 1; p.aaaaa = 2; sink(p);
P_assignTwice ==
    Program(<<S_objEmpty, AssignStmt("p", "aaaaa", Num(1)),
              AssignStmt("p", "aaaaa", Num(2)), S_sinkP>>)
\* var p = {}; p.aaaaa = 1; p.name = 2; sink(p);
P_assignName ==
    Program(<<S_objEmpty, AssignStmt("p", "aaaaa", Num(1)),
              AssignStmt("p", "name", Num(2)), S_sinkP>>)
\* var p = {}; p.aaaaa = 1; var p = {}; p.bbbbb = 2; sink(p);
P_redeclare ==
    Program(<<S_objEmpty, AssignStmt("p", "aaaaa", Num(1)),
              S_objEmpty, AssignStmt("p", "bbbbb", Num(2)), S_sinkP>>)

\* function (a, b) { return "abc...+/="; }
S_b64Fn == FunctionExpression(ParamsAB, <<ReturnStatement(StringLiteral(Base64a))>>)
\* var p = {}; sink(p);
P_emptyUsed == Program(<<S_objEmpty, S_sinkP>>)
\* var p = {}; p.aaaaa = p.bbbbb = 1; sink(p);
P_assignChain ==
    Program(<<S_objEmpty,
              AssignStmt("p", "aaaaa",
                  AssignmentExpression(
                      MemberExpression(Identifier("p"), Identifier("bbbbb"), FALSE),
                      Num(1))),
              S_sinkP>>)
\* var arr = ["x"]; let b64 = function (a, b) {...}; b64(1);
P_letDecoder ==
    Program(<<S_arr, Let("b64", S_b64Fn), CallStmt("b64", <<Num(1)>>)>>)
\* var arr = ["x"]; var b64 = function (a, b) {...}; b64(1);
P_varDecoder ==
    Program(<<S_arr, Var("b64", S_b64Fn), CallStmt("b64", <<Num(1)>>)>>)
\* function w(a, b) { return obj.m(a, b); }  w(1);
P_wrapMember ==
    Program(<<FunctionDeclaration("w", ParamsAB,
                <<ReturnStatement(CallExpression(
                    MemberExpression(Identifier("obj"), Identifier("m"), FALSE),
                    ParamsAB))>>),
              CallStmt("w", <<Num(1)>>)>>)

\* sink(<n>);
S_sink(n) == CallStmt("sink", <<Num(n)>>)
\* x = true ? 1 : 2;
P_condAssign ==
    Program(<<ExpressionStatement(AssignmentExpression(Identifier("x"),
                ConditionalExpression(BooleanLiteral(TRUE), Num(1), Num(2))))>>)
\* false ? sink(1) : sink(2);
P_condStmt ==
    Program(<<ExpressionStatement(
                ConditionalExpression(BooleanLiteral(FALSE),
                    CallExpression(Identifier("sink"), <<Num(1)>>),
                    CallExpression(Identifier("sink"), <<Num(2)>>)))>>)
\* k ? 1 : 2;
P_condOpen ==
    Program(<<ExpressionStatement(
                ConditionalExpression(Identifier("k"), Num(1), Num(2)))>>)
\* if (true) { sink(1); sink(2); } else { sink(3); }
P_ifBlock ==
    Program(<<IfStatement(BooleanLiteral(TRUE),
                          BlockStatement(<<S_sink(1), S_sink(2)>>),
                          BlockStatement(<<S_sink(3)>>))>>)
\* if (false) sink(1); else sink(2);
P_ifElse ==
    Program(<<IfStatement(BooleanLiteral(FALSE), S_sink(1), S_sink(2))>>)
\* if (false) sink(1);
P_ifFalse == Program(<<IfStatement(BooleanLiteral(FALSE), S_sink(1), Null)>>)
\* if (true) if (k) sink(1);
P_ifNested ==
    Program(<<IfStatement(BooleanLiteral(TRUE),
                          IfStatement(Identifier("k"), S_sink(1), Null), Null)>>)
\* if (true) while (k) { sink(1); }
P_ifWhile ==
    Program(<<IfStatement(BooleanLiteral(TRUE),
                          WhileStatement(Identifier("k"),
                                         BlockStatement(<<S_sink(1)>>)),
                          Null)>>)
\* var p = {}; if (true) { p.aaaaa = 1; } sink(p);
P_ifAssign ==
    Program(<<S_objEmpty,
              IfStatement(BooleanLiteral(TRUE),
                          BlockStatement(<<AssignStmt("p", "aaaaa", Num(1))>>),
                          Null),
              S_sinkP>>)
\* if (true) { var arr = ["x"]; function dec(a, b) {...}; dec(1); }
P_ifDecoder ==
    Program(<<IfStatement(BooleanLiteral(TRUE),
                          BlockStatement(<<S_arr, S_dec(StringLiteral("hello")),
                                           CallStmt("dec", <<Num(1)>>)>>),
                          Null)>>)
\* !0 + !"" + !false;
P_notSum ==
    Program(<<ExpressionStatement(
                BinaryExpression("+",
                    BinaryExpression("+", UnaryExpression("!", Num(0)),
                                          UnaryExpression("!", StringLiteral(""))),
                    UnaryExpression("!", BooleanLiteral(FALSE))))>>)
\* sink(+1, -1, !k, ![], !{}, !undefined);
P_unary ==
    Program(<<CallStmt("sink",
                <<UnaryExpression("+", Num(1)), UnaryExpression("-", Num(1)),
                  UnaryExpression("!", Identifier("k")),
                  UnaryExpression("!", ArrayExpression(<<>>)),
                  UnaryExpression("!", ObjectExpression(<<>>)),
                  UnaryExpression("!", Identifier("undefined"))>>)>>)

\* function (a, b) { return a + b; }
S_add ==
    FunctionExpression(ParamsAB,
        <<ReturnStatement(BinaryExpression("+", Identifier("a"), Identifier("b")))>>)
\* sink(p.<key>);
S_read(key) ==
    CallStmt("sink", <<MemberExpression(Identifier("p"), Identifier(key), FALSE)>>)
\* var p = {aaaaa: function (a, b) { return a + b; }, bbbbb: 2}; sink(p.aaaaa);
P_proxyFn ==
    Program(<<Var("p", ObjectExpression(
                <<ObjectProperty(Identifier("aaaaa"), S_add),
                  ObjectProperty(Identifier("bbbbb"), Num(2))>>)),
              S_read("aaaaa")>>)
\* var p = {aaaaa: 1, "bbbbb": 2}; sink(p.ccccc);
P_proxyMiss == Program(<<S_obj5, S_read("ccccc")>>)

\* var p = {}; p.aaaaa(p.aaaaa = <value>);
P_callSelf(value) ==
    Program(<<S_objEmpty,
              ExpressionStatement(CallExpression(
                  MemberExpression(Identifier("p"), Identifier("aaaaa"), FALSE),
                  <<AssignmentExpression(
                      MemberExpression(Identifier("p"), Identifier("aaaaa"), FALSE),
                      value)>>))>>)
\* function (a) { return sink(a); }
S_fwd ==
    FunctionExpression(<<Identifier("a")>>,
        <<ReturnStatement(CallExpression(Identifier("sink"), <<Identifier("a")>>))>>)

\* (function (<params>) { return <ret>; })(<args>);
P_iife(params, ret, args) ==
    Program(<<ExpressionStatement(CallExpression(
                FunctionExpression(params, <<ReturnStatement(ret)>>), args))>>)
\* the calls of function expressions handed to optimize
Iifes ==
    {P_iife(ParamsAB, BinaryExpression("-", Identifier("a"), Identifier("b")),
            <<Identifier("k"), Num(2)>>),
     P_iife(ParamsAB, Identifier("b"), <<Num(1), Num(5)>>),
     P_iife(ParamsAB, Identifier("b"), <<Num(1)>>),
     P_iife(<<>>, Num(7), <<Num(1)>>),
     P_iife(ParamsAB, CallExpression(Identifier("a"), <<Identifier("b")>>),
            <<Identifier("sink"), Num(1)>>),
     P_iife(ParamsAB, CallExpression(Identifier("b"), <<Identifier("a")>>),
            <<Num(1)>>),
     P_iife(ParamsAB,
            CallExpression(MemberExpression(Identifier("obj"), Identifier("m"), FALSE),
                           ParamsAB),
            <<Num(1), Num(2)>>),
     P_iife(ParamsAB, UnaryExpression("-", Identifier("a")), <<Num(1), Num(2)>>),
     P_iife(<<>>, Null, <<>>)}

\* "1|0".split("|"), with the property in brackets when computed
S_split(computed) ==
    CallExpression(
        MemberExpression(StringLiteral("1|0"),
                         IF computed THEN StringLiteral("split")
                         ELSE Identifier("split"),
                         computed),
        <<StringLiteral("|")>>)
\* case "<label>": sink(<n>); continue;
S_case(label, n) ==
    SwitchCase(StringLiteral(label), <<S_sink(n), ContinueStatement>>)
\* while (true) { switch (arr[i++]) { <cases> } break; }
S_flat(cases) ==
    WhileStatement(BooleanLiteral(TRUE), BlockStatement(
        <<SwitchStatement(
              MemberExpression(Identifier("arr"),
                               UpdateExpression("++", Identifier("i")), TRUE),
              cases),
          BreakStatement>>))
\* var arr = "1|0"["split"]("|"); var i = 0; while (true) { switch (arr[i++])
\* { case "0": sink(1); continue; case "1": sink(2); continue; } break; }
P_flat ==
    Program(<<Var("arr", S_split(TRUE)), Var("i", Num(0)),
              S_flat(<<S_case("0", 1), S_case("1", 2)>>)>>)
\* the same with the case "0" alone
P_flatMissing ==
    Program(<<Var("arr", S_split(FALSE)), Var("i", Num(0)),
              S_flat(<<S_case("0", 1)>>)>>)
\* the same with var arr = "1|0".split("|"), i = 0; as one declaration
P_flatJoint ==
    Program(<<VariableDeclaration(
                <<VariableDeclarator(Identifier("arr"), S_split(FALSE)),
                  VariableDeclarator(Identifier("i"), Num(0))>>),
              S_flat(<<S_case("0", 1), S_case("1", 2)>>)>>)
\* the same with var arr = k.split("|");
P_flatNoPad ==
    Program(<<Var("arr", CallExpression(
                  MemberExpression(Identifier("k"), Identifier("split"), FALSE),
                  <<StringLiteral("|")>>)),
              Var("i", Num(0)),
              S_flat(<<S_case("0", 1), S_case("1", 2)>>)>>)
\* the same with the cases  case "0": sink(1); continue; default: sink(2); continue;
P_flatDefault ==
    Program(<<Var("arr", S_split(FALSE)), Var("i", Num(0)),
              S_flat(<<S_case("0", 1),
                       SwitchCase(Null, <<S_sink(2), ContinueStatement>>)>>)>>)

\* var p = {aaaaa: 1, "bbbbb": 2}; var q = {ccccc: 3}; sink(p, p.aaaaa);
P_twoProxies ==
    Program(<<S_obj5,
              Var("q", ObjectExpression(<<ObjectProperty(Identifier("ccccc"), Num(3))>>)),
              S_use, CallStmt("sink", <<Identifier("q")>>)>>)

\* var arr = ["x"];
\* var dec = function (a, b) { return (dec = function () { return "hello"; }, dec(a, b)); };
\* dec(1);
P_exprDecoder ==
    Program(<<S_arr,
              Var("dec", FunctionExpression(ParamsAB,
                  <<ReturnStatement(SequenceExpression(
                      <<AssignmentExpression(Identifier("dec"),
                            FunctionExpression(<<>>,
                                <<ReturnStatement(StringLiteral("hello"))>>)),
                        CallExpression(Identifier("dec"), ParamsAB)>>))>>)),
              CallStmt("dec", <<Num(1)>>)>>)

\* var p = {aaaaa: 1, "bbbbb": 2}; sink(p, p.aaaaa);
P_proxy == Program(<<S_obj5, S_use>>)
\* var p = {name: "x"}; sink(p, p.aaaaa);
P_objName == Program(<<S_objName, S_use>>)
\* var p = {}; var p = {aaaaa: 1, "bbbbb": 2};
P_twice == Program(<<S_objEmpty, S_obj5>>)
\* var arr = ["x"]; function dec(a, b) {...}; dec(1);
P_decode(ret) == Program(<<S_arr, S_dec(ret), CallStmt("dec", <<Num(1)>>)>>)
\* var arr = ["x"]; (function (a, b) {})(arr, 1); function dec(a, b) {...}; dec(1);
P_shuffled ==
    Program(<<S_arr, S_shuf(<<>>), S_dec(StringLiteral("hello")),
              CallStmt("dec", <<Num(1)>>)>>)
\* function w(a, b) { return <callee>(a, b); }  w(1);
P_wrap(callee) == Program(<<S_wrap(callee), CallStmt("w", <<Num(1)>>)>>)

\* parser.parse over the sources handed to optimize
Programs ==
    {P_proxy, P_objName, P_twice,
     P_decode(StringLiteral("hello")), P_decode(NullLiteral), P_shuffled,
     P_wrap("dec"), P_wrap("parseInt"),
     Program(<<S_arrBad, S_dec(StringLiteral("hello"))>>),
     Program(<<S_noInit, S_dec(StringLiteral("hello"))>>),
     Program(<<S_num, S_ref>>),
     Program(<<S_use>>),
     Program(<<CallStmt("sink", <<Num(1)>>)>>),
     Program(<<CallStmt("eval", <<StringLiteral("1")>>)>>),
     Program(<<ExpressionStatement(
                 BinaryExpression("/", BigIntLiteral(1), BigIntLiteral(0)))>>),
     Program(<<ExpressionStatement(BinaryExpression("+", Num(1), Num(2)))>>),
     Program(<<S_while>>), Program(<<S_two>>), Program(<<S_seq>>),
     Program(<<S_b64>>), Program(<<S_unused>>),
     P_assignTwice, P_assignName, P_letDecoder, P_varDecoder, P_wrapMember,
     P_emptyUsed, P_assignChain,
     P_condAssign, P_condStmt, P_condOpen, P_ifBlock, P_ifElse, P_ifFalse,
     P_ifNested, P_ifWhile, P_ifAssign, P_ifDecoder, P_notSum, P_unary,
     P_proxyFn, P_proxyMiss,
     P_callSelf(Num(1)), P_callSelf(StringLiteral("s")), P_callSelf(S_fwd)}
    \cup Iifes
    \cup {P_flat, P_flatMissing, P_flatJoint, P_flatNoPad, P_flatDefault,
          P_twoProxies, P_exprDecoder, P_redeclare}

\* parser.parse(generate(ast).code): a literal built by the rewriter gets the
\* raw text the generator printed for it
RECURSIVE parse(_)
parse(n) ==
    IF n.type = "NumericLiteral" /\ n.raw = "none" THEN [n EXCEPT !.raw = "dec"]
    ELSE MapChildren(n, LAMBDA c : parse(c))

\* ------------------------------------------------------------------ state
VARIABLES
    phase,      \* "idle" between calls, else the stage optimize is in
    ast,        \* the tree of the running call
    pos,        \* the traversal event whose arm runs next
    cache,      \* the Analysis Cache of the running call
    global,     \* the host evaluation scope: name -> value
    bindings,   \* scope bindings registered by the first traversal
    uids,       \* names the program scope holds as taken
    calls,      \* optimize calls started so far
    input,      \* the tree the running call parsed
    again,      \* TRUE when the input is the output of the call before
    stages,     \* stages the running call has started, in order
    warned,     \* console.warn calls of the running call
    outcome,    \* how the last call ended: "none", "returned", "thrown"
    output      \* what the last call returned

vars ==
    <<phase, ast, pos, cache, global, bindings, uids, calls, input, again,
      stages, warned, outcome, output>>

NoProgram == Program(<<>>)
EmptyCache ==
    [corePaths |-> EmptyMap, coreRefPaths |-> <<>>, proxyPaths |-> EmptyMap,
     doubtedProxyPathInfos |-> EmptyMap]

Init ==
    /\ phase = "idle"
    /\ ast = NoProgram
    /\ pos = Done
    /\ cache = EmptyCache
    /\ global = Builtins
    /\ bindings = EmptyMap
    /\ uids = {}
    /\ calls = 0
    /\ input = NoProgram
    /\ again = FALSE
    /\ stages = <<>>
    /\ warned = 0
    /\ outcome = "none"
    /\ output = NoProgram

\* -------------------------------------------------------------- traversal
DetectTypes ==
    {"SequenceExpression", "StringLiteral", "VariableDeclaration",
     "FunctionDeclaration", "FunctionExpression"}
RewriteExitTypes ==
    {"AssignmentExpression", "BinaryExpression", "CallExpression",
     "FunctionDeclaration", "FunctionExpression", "MemberExpression",
     "NumericLiteral", "ObjectExpression", "ObjectProperty", "StringLiteral",
     "SwitchStatement", "VariableDeclarator", "ConditionalExpression",
     "IfStatement", "UnaryExpression"}
BeautifyTypes == {"Identifier", "MemberExpression"}

\* TRUE when the visitor of the stage has an arm that looks at the node
HasArm(st, n, ev) ==
    CASE st = "detect" -> ev = "enter" /\ n.type \in DetectTypes
      [] st = "rewrite" ->
           \/ ev = "enter" /\ n.type = "VariableDeclarator"
           \/ ev = "exit" /\ n.type \in RewriteExitTypes
      [] st = "beautify" -> ev = "enter" /\ n.type \in BeautifyTypes
      [] OTHER -> FALSE

\* the first event from e on, in depth-first order, that an arm handles
RECURSIVE Seek(_, _, _)
Seek(root, st, e) ==
    IF e.ev = "done" THEN e
    ELSE IF HasArm(st, Get(root, e.path), e.ev) THEN e
    ELSE Seek(root, st, StepEvent(root, e))

\* What an arm leaves behind.  next is the event the traversal goes on with:
\* Auto for the depth-first successor of the current event, the entry of a
\* path for a node the arm put there (Babel requeues a replaced node and
\* visits it as a new one), the event after a removed node otherwise.
Auto == [path |-> <<>>, ev |-> "auto"]
Same ==
    [threw |-> FALSE, next |-> Auto, ast |-> ast, cache |-> cache,
     global |-> global, bindings |-> bindings, uids |-> uids,
     warned |-> warned]
Thrown == [Same EXCEPT !.threw = TRUE]

\* the step of the traversal that ran an arm with result r: an error leaves
\* optimize and its locals behind, otherwise the traversal goes on to the
\* next node
Finish(r) ==
    /\ global' = r.global
    /\ warned' = r.warned
    /\ IF r.threw
       THEN /\ phase' = "idle"
            /\ outcome' = "thrown"
            /\ pos' = Done
            /\ ast' = NoProgram
            /\ cache' = EmptyCache
            /\ bindings' = EmptyMap
            /\ uids' = {}
       ELSE /\ phase' = phase
            /\ outcome' = outcome
            /\ pos' = Seek(r.ast, phase,
                           IF r.next = Auto THEN StepEvent(r.ast, pos)
                           ELSE r.next)
            /\ ast' = r.ast
            /\ cache' = r.cache
            /\ bindings' = r.bindings
            /\ uids' = r.uids
    /\ UNCHANGED <<calls, input, again, stages, output>>

At(st, ev, types) ==
    /\ phase = st
    /\ pos.ev = ev
    /\ Get(ast, pos.path).type \in types
Node == Get(ast, pos.path)
Parent == Get(ast, ParentPath(ast, pos.path))

\* ------------------------------------------------------ optimize: parsing
\* optimize(jsCode) up to the first traverse call: the source is parsed, the
\* cache is created empty and the first traversal crawls the scope
optimize(src) ==
    /\ phase = "idle"
    /\ calls < MaxCalls
    /\ phase' = "detect"
    /\ ast' = src
    /\ input' = src
    /\ cache' = EmptyCache
    /\ bindings' = Crawl(src)
    /\ uids' = References(src)
    /\ pos' = Seek(src, "detect", Enter(<<>>))
    /\ calls' = calls + 1
    /\ stages' = <<"detect">>
    /\ warned' = 0
    /\ outcome' = "none"
    /\ output' = NoProgram
    /\ UNCHANGED global

\* a call on a source text of the input set
optimize_source ==
    \E src \in Programs : optimize(src) /\ again' = FALSE

\* a call on the text the call before returned: optimize(optimize(s))
optimize_again ==
    /\ outcome = "returned"
    /\ optimize(parse(output))
    /\ again' = TRUE

\* ------------------------------------------------ visitorDetectEncrypt
\* context.isEncryptFunction
isEncryptFunction(root, path) ==
    LET n == Get(root, path)
        body == Flat(n.body.body)
        destNode == body[1].argument
    IN /\ n.type \in {"FunctionDeclaration", "FunctionExpression"}
       /\ n.type = "FunctionExpression" =>
             Get(root, ParentPath(root, path)).type = "VariableDeclarator"
       /\ Len(n.params) = 2
       /\ n.body.type = "BlockStatement"
       /\ Len(body) = 1
       /\ body[1].type = "ReturnStatement"
       /\ destNode.type = "SequenceExpression"
       /\ Len(destNode.expressions) = 2
       /\ destNode.expressions[1].type = "AssignmentExpression"
       /\ destNode.expressions[2].type = "CallExpression"
       /\ destNode.expressions[1].left.type = "Identifier"
       /\ destNode.expressions[2].callee.type = "Identifier"
       /\ destNode.expressions[1].left.name = destNode.expressions[2].callee.name

\* index of the first element of s that satisfies Hit, 0 when there is none
FirstIndex(s, Hit(_)) ==
    IF \A i \in 1..Len(s) : ~Hit(s[i]) THEN 0
    ELSE CHOOSE i \in 1..Len(s) : Hit(s[i]) /\ \A j \in 1..(i - 1) : ~Hit(s[j])

\* a `var x;` declaration: reading declarations[0].init.type of it throws
NoInitDeclaration(n) ==
    /\ n.type = "VariableDeclaration"
    /\ Len(Flat(n.declarations)) = 1
    /\ Flat(n.declarations)[1].init.type = "Null"

\* the siblings context.addEncryptFunction looks for around the decoder at
\* path: path1 the support array before it, path2 the shuffler call before
\* or after it; scanThrows when the scan for path1 reads .type of a missing
\* initializer before any match
encryptSupport(root, path) ==
    LET IsShuffle(v) ==
            /\ v.type = "ExpressionStatement"
            /\ v.expression.type = "CallExpression"
            /\ v.expression.callee.type = "FunctionExpression"
            /\ Len(v.expression.callee.params) = 2
            /\ Len(v.expression.arguments) = 2
            /\ v.expression.arguments[1].type = "Identifier"
        findPath2Callback(q) == IsShuffle(Get(root, q))
        IsArray(v) ==
            /\ v.type = "VariableDeclaration"
            /\ Len(Flat(v.declarations)) = 1
            /\ Flat(v.declarations)[1].init.type = "ArrayExpression"
        IsSupport(q) == IsArray(Get(root, q))
        Found(prevPaths, nextPaths, pathIndex1, prevIndex2, nextIndex2) ==
            [path1 |-> IF pathIndex1 # 0 THEN prevPaths[pathIndex1] ELSE NoPath,
             path2 |-> IF prevIndex2 # 0 THEN prevPaths[prevIndex2]
                       ELSE IF nextIndex2 # 0 THEN nextPaths[nextIndex2]
                       ELSE NoPath,
             scanThrows |->
                 \E i \in 1..Len(prevPaths) :
                     /\ NoInitDeclaration(Get(root, prevPaths[i]))
                     /\ pathIndex1 = 0 \/ i < pathIndex1]
        Scan(prevPaths, nextPaths) ==
            Found(prevPaths, nextPaths,
                  FirstIndex(prevPaths, IsSupport),
                  FirstIndex(prevPaths, findPath2Callback),
                  FirstIndex(nextPaths, findPath2Callback))
    IN Scan(getAllPrevSiblings(root, path), getAllNextSiblings(root, path))

\* gr1.code + gr2.code + gr3.code with the two anti-tamper patterns cut out
sideLoadCode(root, path) ==
    LET Code(sup) ==
            <<StripChecks(generate(Get(root, sup.path1)))>>
            \o (IF sup.path2 # NoPath
                THEN <<StripChecks(generate(Get(root, sup.path2)))>> ELSE <<>>)
            \o <<StripChecks(generate(Get(root, path)))>>
    IN Code(encryptSupport(root, path))

\* context.addEncryptFunction, as a change of r: the arm result so far
addEncryptFunction(r, path) ==
    LET destId(node) ==
            IF node.type = "FunctionDeclaration" THEN node.id
            ELSE Flat(node.declarations)[1].id
        Added(node, sup, ev) ==
            IF node.type \notin {"FunctionDeclaration", "VariableDeclaration"}
            THEN [r EXCEPT !.threw = TRUE]
            ELSE IF sup.scanThrows THEN [r EXCEPT !.threw = TRUE]
            ELSE IF sup.path1 = NoPath THEN r
            ELSE IF ev.v.k = "throw"
            THEN [r EXCEPT !.threw = TRUE, !.global = ev.g]
            ELSE [r EXCEPT
                    !.global = ev.g,
                    !.cache.coreRefPaths =
                        @ \o <<sup.path1>>
                          \o (IF sup.path2 # NoPath THEN <<sup.path2>> ELSE <<>>),
                    !.cache.corePaths = Upd(@, destId(node).name, path)]
    IN Added(Get(r.ast, path), encryptSupport(r.ast, path),
             globalEval(sideLoadCode(r.ast, path), r.global))

\* visitorDetectEncrypt.enter
Detect_enter ==
    /\ At("detect", "enter", {"FunctionDeclaration", "FunctionExpression"})
    /\ Finish(IF isEncryptFunction(ast, pos.path)
              THEN addEncryptFunction(Same, pos.path) ELSE Same)

\* visitorDetectEncrypt.SequenceExpression
Detect_SequenceExpression ==
    /\ At("detect", "enter", {"SequenceExpression"})
    /\ Finish(
         IF Parent.type # "ExpressionStatement" THEN Same
         ELSE [Same EXCEPT
                 !.ast = Put(ast, ParentPath(ast, pos.path),
                             Inline(Tuple([i \in 1..Len(Node.expressions) |->
                                 ExpressionStatement(Node.expressions[i])]))),
                 !.next = Enter(ParentPath(ast, pos.path))])

\* visitorDetectEncrypt.StringLiteral
Detect_StringLiteral ==
    /\ At("detect", "enter", {"StringLiteral"})
    /\ LET Wanted(n) ==
               \/ n.type = "FunctionDeclaration" /\ Len(n.params) = 2
               \/ /\ n.type = "VariableDeclaration"
                  /\ Len(Flat(n.declarations)) = 1
                  /\ Flat(n.declarations)[1].init.type = "FunctionExpression"
                  /\ Len(Flat(n.declarations)[1].init.params) = 2
           \* the predicate reads .type of a missing initializer on the way up
           FindThrows(ups, destPath) ==
               \E i \in DOMAIN ups :
                   /\ NoInitDeclaration(Get(ast, ups[i]))
                   /\ destPath = NoPath \/ Len(ups[i]) > Len(destPath)
           Arm(destPath) ==
               IF Node.value \notin {Base64a, Base64b} THEN Same
               ELSE IF FindThrows(SelfAndAncestors(ast, pos.path), destPath)
               THEN Thrown
               ELSE IF destPath = NoPath THEN Same
               ELSE addEncryptFunction(Same, destPath)
       IN Finish(Arm(FindUp(ast, pos.path, Wanted)))

\* visitorDetectEncrypt.VariableDeclaration.  replaceInline with a list, on a
\* statement of a list, inserts the new nodes and then removes the path:
\* the removal unbinds the names of the declaration and nothing registers
\* them again.
Detect_VariableDeclaration ==
    /\ At("detect", "enter", {"VariableDeclaration"})
    /\ LET Split_(ds) ==
               IF Len(ds) > 1
               THEN [Same EXCEPT
                       !.ast = Put(ast, pos.path,
                                   Inline(Tuple([i \in 1..Len(ds) |->
                                      [Node EXCEPT !.declarations = <<ds[i]>>]]))),
                       !.bindings = Unbind(bindings, ast, pos.path)]
               ELSE Same
       IN Finish(Split_(Flat(Node.declarations)))

\* ------------------------------------------------------------ stage changes
\* traverse(ast, visitor) after traverse(ast, visitorDetectEncrypt) returned
traverse_visitor ==
    /\ phase = "detect"
    /\ pos = Done
    /\ phase' = "rewrite"
    /\ pos' = Seek(ast, "rewrite", Enter(<<>>))
    /\ stages' = Append(stages, "rewrite")
    /\ UNCHANGED <<ast, cache, global, bindings, uids, calls, input, again,
                   warned, outcome, output>>

\* traverse(ast, visitorBeautify)
traverse_visitorBeautify ==
    /\ phase = "rewrite"
    /\ pos = Done
    /\ phase' = "beautify"
    /\ pos' = Seek(ast, "beautify", Enter(<<>>))
    /\ stages' = Append(stages, "beautify")
    /\ UNCHANGED <<ast, cache, global, bindings, uids, calls, input, again,
                   warned, outcome, output>>

\* ------------------------------------------------------- visitor (rewriter)
\* path.remove() as a change of the arm result r
Remove(r, path) ==
    LET Cut(top, after) ==
            [r EXCEPT !.ast = after,
                      !.bindings = Unbind(r.bindings, r.ast, top),
                      !.next = AfterExit(after, top)]
        At_(top) == Cut(top, Put(r.ast, top, Removed))
    IN At_(RemovedTop(r.ast, path))

\* path.replaceInline(newNode) on the current node, as a change of r
Replace(r, newNode) ==
    [r EXCEPT !.ast = Put(r.ast, pos.path, newNode), !.next = Enter(pos.path)]

\* A NodePath is found again through its node and the node that holds it:
\* when an arm moves a subtree from the address old to the address new, the
\* paths of the nodes more than depth levels below old follow their nodes,
\* and the paths of the moved nodes themselves keep their old place.
Move(q, old, new, depth) ==
    IF Prefix(old, q) /\ Len(q) > Len(old) + depth
    THEN new \o SubSeq(q, Len(old) + 1, Len(q))
    ELSE q
Rebased(r, old, new, depth) ==
    LET M(q) == Move(q, old, new, depth)
        Paths(f) == [n \in DOMAIN f |-> M(f[n])]
        List(l) == Tuple([i \in 1..Len(l) |-> M(l[i])])
    IN [r EXCEPT
          !.cache.corePaths = Paths(@),
          !.cache.coreRefPaths = List(@),
          !.cache.proxyPaths = Paths(@),
          !.cache.doubtedProxyPathInfos =
              [n \in DOMAIN @ |->
                  [@[n] EXCEPT !.path = M(@), !.originPaths = List(@)]],
          !.bindings = [n \in DOMAIN @ |-> [@[n] EXCEPT !.path = M(@)]]]

\* cache.getValidProxyPath, as the truth value its callers test
getValidProxyPath(c, name) ==
    name \in DOMAIN c.proxyPaths \/ name \in DOMAIN c.doubtedProxyPathInfos

\* cache.getValidProxyPathProperty; Null when nothing is found
getValidProxyPathProperty(root, c, name, propertyName) ==
    IF name \in DOMAIN c.proxyPaths
    THEN findProperty(Flat(Get(root, c.proxyPaths[name]).properties), propertyName)
    ELSE IF name \in DOMAIN c.doubtedProxyPathInfos
    THEN findProperty(c.doubtedProxyPathInfos[name].properties, propertyName)
    ELSE Null

\* visitor.enter: only a VariableDeclarator makes it act
visitor_enter ==
    /\ At("rewrite", "enter", {"VariableDeclarator"})
    /\ LET name == Node.id.name
       IN Finish(IF name \notin DOMAIN bindings THEN Same
                 ELSE IF bindings[name].constantViolations > 0 THEN Same
                 ELSE IF bindings[name].referencePaths = 0
                 THEN Remove(Same, pos.path)
                 ELSE Same)

\* visitor.AssignmentExpression.exit
AssignmentExpression_exit ==
    /\ At("rewrite", "exit", {"AssignmentExpression"})
    /\ LET left == Node.left
           objectName == getStringLiteralValue(left.object)
           infos == cache.doubtedProxyPathInfos
           cacheObj == infos[objectName]
           propertyName == getStringLiteralValue(left.property)
           propertyNameLength == Len(propertyName)
           prevKeyLength == IF cacheObj.prevKeyLength = 0 THEN propertyNameLength
                            ELSE cacheObj.prevKeyLength
           newNode == objectProperty(StringLiteral(propertyName), Node.right, TRUE)
           known == findProperty(cacheObj.properties, propertyName) # Null
       IN Finish(
            IF ~(/\ left.type = "MemberExpression"
                 /\ left.property.type \in {"StringLiteral", "Identifier"}
                 /\ left.object.type \in {"StringLiteral", "Identifier"})
            THEN Same
            ELSE IF objectName \notin DOMAIN infos THEN Same
            ELSE IF propertyNameLength # 5 \/ propertyNameLength # prevKeyLength
            THEN [Same EXCEPT !.cache.doubtedProxyPathInfos = Del(infos, objectName)]
            ELSE [Same EXCEPT !.cache.doubtedProxyPathInfos =
                    Upd(infos, objectName,
                        [cacheObj EXCEPT
                           !.prevKeyLength = prevKeyLength,
                           !.properties = IF known THEN @ ELSE Append(@, newNode),
                           !.originPaths = IF known THEN @
                                           ELSE Append(@, pos.path)])])

\* the operands visitor.BinaryExpression.exit folds: two literals of one
\* type, or two numbers with or without a minus sign
SignedNumber(n) ==
    \/ n.type = "NumericLiteral"
    \/ /\ n.type = "UnaryExpression"
       /\ n.operator = "-"
       /\ n.argument.type = "NumericLiteral"
Foldable(node) ==
    /\ node.operator \in {"+", "-", "*", "/", "===", "!=="}
    /\ \/ IsLiteralType(node.left.type) /\ node.left.type = node.right.type
       \/ SignedNumber(node.left) /\ SignedNumber(node.right)

\* visitor.BinaryExpression.exit
BinaryExpression_exit ==
    /\ At("rewrite", "exit", {"BinaryExpression"})
    /\ LET node == Node
           ev == Eval(generate(node), global, EmptyMap, HostFuel)
           literal == getLiteralNode(ev.v)
           \* global.eval is not guarded here, and neither is a null literal
           folded == IF literal = Null THEN [Thrown EXCEPT !.global = ev.g]
                     ELSE Replace([Same EXCEPT !.global = ev.g], literal)
       IN Finish(IF Foldable(node) THEN folded ELSE Same)

\* visitor.MemberExpression.exit
MemberExpression_exit ==
    /\ At("rewrite", "exit", {"MemberExpression"})
    /\ LET node == Node
           isLeft == Parent.type = "AssignmentExpression"
                     /\ Last(pos.path)[1] = "left"
           propertyName == getStringLiteralValue(node.property)
           proxyProperty ==
               getValidProxyPathProperty(ast, cache, node.object.name, propertyName)
       IN Finish(
            IF ~(/\ ~isLeft
                 /\ node.object.type = "Identifier"
                 /\ node.property.type \in {"Identifier", "StringLiteral"}
                 /\ isValidVariableName(node.object.name))
            THEN Same
            ELSE IF ~getValidProxyPath(cache, node.object.name) THEN Same
            ELSE IF proxyProperty = Null THEN Same
            ELSE Replace(Same, proxyProperty.value))

\* visitor.NumericLiteral.exit
NumericLiteral_exit ==
    /\ At("rewrite", "exit", {"NumericLiteral"})
    /\ Finish(IF Node.raw \in {"hex", "dec"}
              THEN [Same EXCEPT !.ast = Put(ast, pos.path, [Node EXCEPT !.raw = "dec"])]
              ELSE Same)

\* the loop of visitor.ObjectExpression.exit over the properties: TRUE when
\* it ends with `conformed` still set
RECURSIVE Conformed(_, _)
Conformed(properties, prevKeyLength) ==
    IF properties = <<>> THEN TRUE
    ELSE LET property == Head(properties)
             keyLength == Len(getStringLiteralValue(property.key))
         IN IF property.key.type \notin {"Identifier", "StringLiteral"} THEN FALSE
            ELSE IF prevKeyLength = 0 THEN Conformed(Tail(properties), keyLength)
            ELSE IF keyLength # 5 \/ keyLength # prevKeyLength THEN FALSE
            ELSE Conformed(Tail(properties), prevKeyLength)

\* visitor.ObjectExpression.exit
ObjectExpression_exit ==
    /\ At("rewrite", "exit", {"ObjectExpression"})
    /\ LET name == Parent.id.name
           properties == Flat(Node.properties)
           infos == cache.doubtedProxyPathInfos
       IN Finish(
            IF Parent.type # "VariableDeclarator" THEN Same
            ELSE IF Len(properties) = 0
            THEN IF name \in DOMAIN infos THEN Same
                 ELSE [Same EXCEPT !.cache.doubtedProxyPathInfos =
                         Upd(infos, name,
                             [prevKeyLength |-> 0, path |-> pos.path,
                              properties |-> <<>>, originPaths |-> <<>>])]
            ELSE IF Conformed(properties, 0)
            THEN [Same EXCEPT !.cache.proxyPaths = Upd(@, name, pos.path)]
            ELSE Same)

\* visitor.ObjectProperty.exit
ObjectProperty_exit ==
    /\ At("rewrite", "exit", {"ObjectProperty"})
    /\ Finish(
         IF Node.key.type = "StringLiteral" /\ isValidVariableName(Node.key.value)
         THEN [Same EXCEPT !.ast = Put(ast, pos.path,
                               [Node EXCEPT !.key = Identifier(Node.key.value)])]
         ELSE Same)

\* visitor.StringLiteral.exit
StringLiteral_exit ==
    /\ At("rewrite", "exit", {"StringLiteral"})
    /\ LET pp == ParentPath(ast, pos.path)
       IN Finish(
            IF /\ Parent.type = "MemberExpression"
               /\ Parent.object.type \in
                    {"MemberExpression", "Identifier", "StringLiteral",
                     "ThisExpression", "CallExpression", "NewExpression",
                     "ArrayExpression", "ObjectExpression", "FunctionExpression",
                     "BinaryExpression"}
               /\ isValidVariableName(Node.value)
            THEN Replace([Same EXCEPT !.ast = Put(ast, pp,
                                         [Parent EXCEPT !.computed = FALSE])],
                         Identifier(Node.value))
            ELSE Same)

\* visitor.VariableDeclarator.exit
VariableDeclarator_exit ==
    /\ At("rewrite", "exit", {"VariableDeclarator"})
    /\ LET node == Node
       IN Finish(
            IF /\ node.id.type = "Identifier"
               /\ node.init.type = "Identifier"
               /\ \/ node.init.name \in DOMAIN cache.corePaths
                  \/ getValidProxyPath(cache, node.init.name)
            THEN Remove([Same EXCEPT
                           !.ast = rename(ast, bindings, node.id.name, node.init.name),
                           !.bindings = renameBinding(bindings, node.id.name,
                                                      node.init.name)],
                        pos.path)
            ELSE Same)

\* node types that are statements
StatementTypes ==
    {"ExpressionStatement", "ReturnStatement", "IfStatement", "WhileStatement",
     "SwitchStatement", "VariableDeclaration", "FunctionDeclaration",
     "BlockStatement", "BreakStatement", "ContinueStatement"}

\* visitor.ConditionalExpression.exit: path.parentPath.replaceWith(newNode)
\* puts the taken branch in the place of the parent of the conditional, as
\* an expression statement when the parent is a statement
ConditionalExpression_exit ==
    /\ At("rewrite", "exit", {"ConditionalExpression"})
    /\ LET Taken(node) == IF node.test.value THEN "consequent" ELSE "alternate"
           Placed(pp, branch, newNode) ==
               IF Parent.type \in StatementTypes
               THEN Rebased([Same EXCEPT
                               !.ast = Put(ast, pp, ExpressionStatement(newNode)),
                               !.next = Enter(pp)],
                            pos.path \o <<<<branch, 0>>>>,
                            pp \o <<<<"expression", 0>>>>, 0)
               ELSE Rebased([Same EXCEPT !.ast = Put(ast, pp, newNode),
                                        !.next = Enter(pp)],
                            pos.path \o <<<<branch, 0>>>>, pp, 0)
           Arm(node) ==
               IF node.test.type = "BooleanLiteral"
               THEN Placed(ParentPath(ast, pos.path), Taken(node),
                           node[Taken(node)])
               ELSE Same
       IN Finish(Arm(Node))

\* visitor.IfStatement.exit
IfStatement_exit ==
    /\ At("rewrite", "exit", {"IfStatement"})
    /\ LET Taken(node) == IF node.test.value THEN "consequent" ELSE "alternate"
           \* replaceInline with the statements of a block: they take the
           \* place of the if statement in a list, and stand in a new
           \* block where the if statement is the only statement
           Spliced(branch, stmts) ==
               Rebased([Same EXCEPT
                          !.ast = Put(ast, pos.path,
                                      IF Last(pos.path)[2] = 0
                                      THEN BlockStatement(stmts)
                                      ELSE Inline(stmts)),
                          !.next = Enter(pos.path)],
                       pos.path \o <<<<branch, 0>>>>, pos.path, 1)
           Branch(branch, newNode) ==
               IF ~Live(newNode) THEN Remove(Same, pos.path)
               ELSE IF newNode.type = "IfStatement" \/ "body" \notin DOMAIN newNode
               THEN Rebased(Replace(Same, newNode),
                            pos.path \o <<<<branch, 0>>>>, pos.path, 0)
               ELSE IF newNode.type = "BlockStatement"
               THEN Spliced(branch, newNode.body)
               ELSE Rebased(Replace(Same, newNode.body),
                            pos.path \o <<<<branch, 0>>, <<"body", 0>>>>,
                            pos.path, 0)
           Arm(node) ==
               IF node.test.type = "BooleanLiteral"
               THEN Branch(Taken(node), node[Taken(node)])
               ELSE Same
       IN Finish(Arm(Node))

\* visitor.UnaryExpression.exit
UnaryExpression_exit ==
    /\ At("rewrite", "exit", {"UnaryExpression"})
    /\ LET \* booleanValue as a literal node, Null while it is null
           Not(arg) ==
               CASE arg.type = "NumericLiteral" ->
                      BooleanLiteral(arg.value = 0 /\ arg.raw # "nan")
                 [] arg.type = "StringLiteral" -> BooleanLiteral(arg.value = "")
                 [] arg.type = "BooleanLiteral" -> BooleanLiteral(~arg.value)
                 [] arg.type = "ArrayExpression" /\ Len(arg.elements) = 0 ->
                      BooleanLiteral(FALSE)
                 [] arg.type = "ObjectExpression" /\ Len(arg.properties) = 0 ->
                      BooleanLiteral(FALSE)
                 [] arg.type = "Identifier" /\ arg.name = "undefined" ->
                      BooleanLiteral(TRUE)
                 [] OTHER -> Null
           Negated(booleanValue) ==
               IF booleanValue # Null THEN Replace(Same, booleanValue) ELSE Same
           Arm(node) ==
               IF node.operator = "!" THEN Negated(Not(node.argument))
               ELSE IF node.operator = "+" /\ node.argument.type = "NumericLiteral"
               THEN Replace(Same, node.argument)
               ELSE Same
       IN Finish(Arm(Node))

\* ------------------------------------------------ context: call inlining
\* what a helper hands back when it ends in an exception
Raise == [type |-> "Raise"]

\* arguments_.filter((item, index) => index !== argumentIndex)
Without(list, k) ==
    Tuple([i \in 1..Len(list) - 1 |-> IF i < k THEN list[i] ELSE list[i + 1]])

\* context.getFunctionExpressionCallNode; Null stands for null and undefined
getFunctionExpressionCallNode(statement, arguments_) ==
    LET Passed(argumentIndex) ==
            IF argumentIndex > -1 /\ argumentIndex < Len(arguments_)
            THEN arguments_[argumentIndex + 1]
            ELSE Null
        CallOf(arg, calleeIndex) ==
            IF calleeIndex = -1 THEN Null
            ELSE IF calleeIndex >= Len(arguments_) THEN Raise
            ELSE CallExpression(arguments_[calleeIndex + 1],
                                Without(arguments_, calleeIndex + 1))
        Returned(arg) ==
            CASE arg.type = "Null" -> Raise
              [] arg.type = "BinaryExpression" /\ Len(arguments_) = 2 ->
                   BinaryExpression(arg.operator, arguments_[1], arguments_[2])
              [] arg.type = "Identifier" ->
                   Passed(indexOfArgument(statement.params, arg.name))
              [] IsLiteralType(arg.type) -> arg
              [] arg.type = "CallExpression" ->
                   IF arg.callee.type = "Identifier"
                   THEN CallOf(arg, indexOfArgument(statement.params,
                                                    arg.callee.name))
                   ELSE IF /\ arg.callee.type = "MemberExpression"
                           /\ arg.callee.object.type = "Identifier"
                           /\ arg.callee.property.type = "Identifier"
                   THEN CallExpression(arg.callee, arguments_)
                   ELSE Null
              [] OTHER -> Null
        Of(body) ==
            IF Len(body) = 1 /\ body[1].type = "ReturnStatement"
            THEN Returned(body[1].argument)
            ELSE IF /\ Len(body) = 2
                    /\ body[1].type = "VariableDeclaration"
                    /\ body[2].type = "ReturnStatement"
            THEN Returned(body[2].argument)
            ELSE Null
    IN Of(Flat(statement.body.body))

\* context.getReplacedCallObjectPropertyNode
getReplacedCallObjectPropertyNode(property, arguments_) ==
    IF property.type # "ObjectProperty" THEN Raise
    ELSE CASE property.value.type \in {"BooleanLiteral", "NumberLiteral",
                                        "StringLiteral"} -> property.value
           [] property.value.type = "FunctionExpression" ->
                getFunctionExpressionCallNode(property.value, arguments_)
           [] OTHER -> Null
\* the test of the third block of visitor.CallExpression.exit, for the call
\* node at the current path: a decoder call that is not the body of a proxy
\* (the same test without the look-up in corePaths)
isDecoderCall_NoCorePaths(node) ==
    LET gp == Get(ast, ParentPath(ast, ParentPath(ast, pos.path)))
    IN /\ node.callee.type = "Identifier"
       /\ node.callee.name \in DOMAIN global
       /\ ~(/\ Parent.type = "ReturnStatement"
            /\ gp.type = "BlockStatement"
            /\ Len(Flat(gp.body)) = 1)
isDecoderCall(node) ==
    LET gp == Get(ast, ParentPath(ast, ParentPath(ast, pos.path)))
    IN /\ node.callee.type = "Identifier"
       /\ node.callee.name \in DOMAIN cache.corePaths
       /\ node.callee.name \in DOMAIN global
       /\ ~(/\ Parent.type = "ReturnStatement"
            /\ gp.type = "BlockStatement"
            /\ Len(Flat(gp.body)) = 1)
\* global.eval(generate(node).code)
evalCall(node) == Eval(generate(node), global, EmptyMap, HostFuel)
\* (a catch block that logs nothing)
console_warn_Silent(r) == r
\* console.warn(`Decode function error: ...`)
console_warn(r) == [r EXCEPT !.warned = @ + 1]

\* visitor.CallExpression.exit: its four blocks in turn, each reading the
\* node the block before left at the path
CallExpression_exit ==
    /\ At("rewrite", "exit", {"CallExpression"})
    /\ LET \* proxyObj.add(1, 2)
           IsProxyCall(node) ==
               /\ node.callee.type = "MemberExpression"
               /\ node.callee.object.type = "Identifier"
               /\ node.callee.property.type \in {"StringLiteral", "Identifier"}
               /\ getValidProxyPath(cache, node.callee.object.name)
           Proxied(node, property) ==
               IF property # Null
               THEN getReplacedCallObjectPropertyNode(property, node.arguments)
               ELSE Null
           ProxyCall(node) ==
               IF IsProxyCall(node)
               THEN Proxied(node,
                      getValidProxyPathProperty(ast, cache,
                          node.callee.object.name,
                          getStringLiteralValue(node.callee.property)))
               ELSE Null
           \* function (a, b) { return a(b) }(navigator, 'userAgent')
           IsInlineCall(node3) ==
               /\ "callee" \in DOMAIN node3
               /\ node3.callee.type = "FunctionExpression"
               /\ Len(Flat(node3.callee.body.body)) = 1
               /\ Flat(node3.callee.body.body)[1].type = "ReturnStatement"
           Inlined(node3) ==
               IF IsInlineCall(node3)
               THEN getFunctionExpressionCallNode(node3.callee, node3.arguments)
               ELSE Null
           Left(node, after, node4) ==
               IF node4 = node THEN after ELSE Replace(after, node4)
           InlineCall(node, after, node3, inlined) ==
               IF inlined = Raise THEN [after EXCEPT !.threw = TRUE]
               ELSE Left(node, after, IF inlined = Null THEN node3 ELSE inlined)
           Block4(node, after, node3) ==
               InlineCall(node, after, node3, Inlined(node3))
           \* core(1, 2)
           Logged(ev, evaluated) ==
               IF ev.v.k = "throw" THEN console_warn(evaluated) ELSE evaluated
           Decoded(node2, literalNode) ==
               IF literalNode # Null THEN literalNode ELSE node2
           CoreCall(node, node2, ev) ==
               Block4(node, Logged(ev, [Same EXCEPT !.global = ev.g]),
                      Decoded(node2, getLiteralNode(ev.v)))
           Block3(node, node2) ==
               IF "callee" \notin DOMAIN node2 THEN Thrown
               ELSE IF isDecoderCall(node2)
               THEN CoreCall(node, node2, evalCall(node2))
               ELSE Block4(node, Same, node2)
           Block2(node, proxied) ==
               IF proxied = Raise THEN Thrown
               ELSE Block3(node, IF proxied = Null THEN node ELSE proxied)
           Arm(node) ==
               IF node.callee.type = "Identifier" /\ node.callee.name = "eval"
               THEN Thrown
               ELSE Block2(node, ProxyCall(node))
       IN Finish(Arm(Node))

\* the name `destNode.argument.callee.name in global` looks up
CalleeName(callee) ==
    IF callee.type = "Identifier" THEN callee.name ELSE "undefined"

\* the test shared by the two arms that harvest a proxy decoder; "raise"
\* when the return statement has no argument to read the type of
IsProxyDecoder(node, g) ==
    LET body == Flat(node.body.body)
        destNode == body[1]
    IN IF ~(Len(body) = 1 /\ destNode.type = "ReturnStatement") THEN "no"
       ELSE IF destNode.argument.type = "Null" THEN "raise"
       ELSE IF /\ destNode.argument.type = "CallExpression"
               /\ CalleeName(destNode.argument.callee) \in DOMAIN g
       THEN "yes"
       ELSE "no"

\* visitor.FunctionDeclaration.exit
FunctionDeclaration_exit ==
    /\ At("rewrite", "exit", {"FunctionDeclaration"})
    /\ LET node == Node
           found == IsProxyDecoder(node, global)
           ev == globalEval(<<generate(node)>>, global)
       IN Finish(
            IF found = "raise" THEN Thrown
            ELSE IF found = "no" THEN Same
            ELSE IF ev.v.k = "throw" THEN [Thrown EXCEPT !.global = ev.g]
            ELSE [Same EXCEPT !.global = ev.g,
                              !.cache.corePaths = Upd(@, node.id.name, pos.path)])

\* visitor.FunctionExpression.exit
FunctionExpression_exit ==
    /\ At("rewrite", "exit", {"FunctionExpression"})
    /\ LET node == Node
           found == IF Parent.type = "VariableDeclarator"
                    THEN IsProxyDecoder(node, global) ELSE "no"
           code == generate(Parent)
           ev == globalEval(<<ExpressionStatement(
                                 AssignmentExpression(code.id, code.init))>>,
                            global)
       IN Finish(
            IF found = "raise" THEN Thrown
            ELSE IF found = "no" THEN Same
            ELSE IF ev.v.k = "throw" THEN [Thrown EXCEPT !.global = ev.g]
            ELSE [Same EXCEPT !.global = ev.g,
                              !.cache.corePaths = Upd(@, Parent.id.name, pos.path)])
\* String.prototype.split over the pads and separators of the inputs
Split(pad, padOperator) ==
    IF pad = "1|0" /\ padOperator = "|" THEN <<"1", "0">>
    ELSE IF pad = "0|1" /\ padOperator = "|" THEN <<"0", "1">>
    ELSE <<pad>>

\* the traversal the SwitchStatement arm runs below the binding of the step
\* array: the value of the last string literal whose parent has type
\* parentType, "" when there is none
LastString(root, path, parentType) ==
    LET ps == SelectSeq(PathsFrom(root, path),
                 LAMBDA q : /\ q # path
                            /\ Get(root, q).type = "StringLiteral"
                            /\ Get(root, ParentPath(root, q)).type = parentType)
    IN IF ps = <<>> THEN "" ELSE Get(root, ps[Len(ps)]).value

\* the loop over the steps: the statements collected; ok is FALSE when
\* cases.find reads .value of the test of a default case
RECURSIVE CollectSteps(_, _)
CollectSteps(steps, cases) ==
    IF steps = <<>> THEN [ok |-> TRUE, nodes |-> <<>>]
    ELSE LET step == Head(steps)
             IsHit(c) == /\ "value" \in DOMAIN c.test
                         /\ c.test.value = step
             hit == FirstIndex(cases, IsHit)
             default == FirstIndex(cases, LAMBDA c : c.test.type = "Null")
             rest == CollectSteps(Tail(steps), cases)
         IN IF default # 0 /\ (hit = 0 \/ default < hit)
            THEN [ok |-> FALSE, nodes |-> <<>>]
            ELSE IF hit = 0 THEN rest
            ELSE [rest EXCEPT !.nodes =
                    SelectSeq(Flat(cases[hit].consequent),
                              LAMBDA item : item.type # "ContinueStatement") \o @]

\* visitor.SwitchStatement.exit
SwitchStatement_exit ==
    /\ At("rewrite", "exit", {"SwitchStatement"})
    /\ LET blockPath == ParentPath(ast, pos.path)
           whilePath == ParentPath(ast, blockPath)
           block == Get(ast, blockPath)
           discriminant == Node.discriminant
           id == discriminant.object
           idInt == discriminant.property.argument
           hasStr == id.name \in DOMAIN bindings
           pad == IF hasStr
                  THEN LastString(ast, bindings[id.name].path, "MemberExpression")
                  ELSE ""
           padOperator ==
               IF hasStr
               THEN LastString(ast, bindings[id.name].path, "CallExpression")
               ELSE ""
           newNodes == CollectSteps(Split(pad, padOperator), Flat(Node.cases))
           r1 == Remove(Same, bindings[id.name].path)
           r2 == Remove(r1, bindings[idInt.name].path)
       IN Finish(
            IF ~(/\ block.type = "BlockStatement"
                 /\ blockPath # <<>>
                 /\ Get(ast, whilePath).type = "WhileStatement"
                 /\ Len(Flat(block.body)) = 2
                 /\ Flat(block.body)[2].type = "BreakStatement")
            THEN Same
            ELSE IF "object" \notin DOMAIN discriminant THEN Thrown
            ELSE IF ~(/\ id.type = "Identifier"
                      /\ discriminant.property.type = "UpdateExpression"
                      /\ discriminant.property.operator = "++"
                      /\ idInt.type = "Identifier")
            THEN Same
            ELSE IF pad = "" \/ padOperator = "" THEN Same
            ELSE IF ~newNodes.ok THEN Thrown
            ELSE IF idInt.name \notin DOMAIN bindings
            THEN [r1 EXCEPT !.threw = TRUE]
            ELSE [r2 EXCEPT !.ast = Put(r2.ast, whilePath, Inline(newNodes.nodes)),
                            !.next = Enter(whilePath)])
\* --------------------------------------------------------- visitorBeautify
\* names that start with an underscore: the hex names and the generated ones
UidBases ==
    {"array", "bool", "funcValue", "func", "num", "obj", "str", "self",
     "error", "param", "lib", "x", "name", "aaaaa", "bbbbb", "dec", "w",
     "sink", "nope", "parseInt"}
UidTries == 3
Uid(base, i) == IF i = 1 THEN "_" \o base ELSE "_" \o base \o ToString(i)
StartsWithUnderscore(name) ==
    \/ name \in HexVariableNames
    \/ \E b \in UidBases, i \in 1..UidTries : name = Uid(b, i)

\* utils.getInstantiatedName; the names of the inputs start in lower case
getInstantiatedName(name) == name

\* scope.generateUidIdentifier(name) followed by scope.rename(old, uid.name)
renameToUid(r, old, base) ==
    LET taken == r.uids \cup DOMAIN r.bindings
        i == CHOOSE k \in 1..Cardinality(taken) + 1 :
                 /\ Uid(base, k) \notin taken
                 /\ \A j \in 1..(k - 1) : Uid(base, j) \in taken
        uid == Uid(base, i)
    IN [r EXCEPT !.ast = rename(r.ast, r.bindings, old, uid),
                 !.bindings = renameBinding(r.bindings, old, uid),
                 !.uids = @ \cup {uid}]

\* the name visitorBeautify.Identifier suggests for a hex name, "" for none
sugVarName(id, parent, key) ==
    LET init == parent.init
    IN IF parent.type = "VariableDeclarator" /\ key = "id"
       THEN CASE init.type = "ArrayExpression" -> "array"
              [] init.type = "BooleanLiteral" -> "bool"
              [] init.type = "CallExpression" ->
                   IF init.callee.type = "Identifier"
                   THEN getInstantiatedName(init.callee.name)
                   ELSE IF init.callee.type = "FunctionExpression"
                   THEN "funcValue"
                   ELSE ""
              [] init.type = "FunctionExpression" -> "func"
              [] init.type = "MemberExpression" ->
                   IF init.property.type = "Identifier" THEN init.property.name
                   ELSE IF init.property.type = "StringLiteral"
                   THEN init.property.value
                   ELSE ""
              [] init.type = "NumericLiteral" -> "num"
              [] init.type = "ObjectExpression" -> "obj"
              [] init.type = "StringLiteral" -> "str"
              [] OTHER -> ""
       ELSE IF parent.type = "CatchClause" THEN "error"
       ELSE IF /\ parent.type \in {"FunctionDeclaration", "FunctionExpression"}
               /\ key # "id"
       THEN "param"
       ELSE ""

\* visitorBeautify.Identifier
Beautify_Identifier ==
    /\ At("beautify", "enter", {"Identifier"})
    /\ LET id == Node
           key == Last(pos.path)[1]
           sug == IF isHexVariableName(id.name)
                  THEN sugVarName(id, Parent, key) ELSE ""
           r1 == IF sug # "" THEN renameToUid(Same, id.name, sug) ELSE Same
           id2 == Get(r1.ast, pos.path)
           parent2 == Get(r1.ast, ParentPath(r1.ast, pos.path))
       IN Finish(
            IF /\ parent2.type = "ObjectProperty"
               /\ key = "key"
               /\ ~StartsWithUnderscore(id2.name)
               /\ parent2.value.type = "Identifier"
               /\ StartsWithUnderscore(parent2.value.name)
            THEN renameToUid(r1, parent2.value.name, id2.name)
            ELSE r1)

\* visitorBeautify.MemberExpression
Beautify_MemberExpression ==
    /\ At("beautify", "enter", {"MemberExpression"})
    /\ LET node == Node
           sug == IF node.property.name = "name"
                     /\ Parent.right.type = "StringLiteral"
                  THEN Parent.right.value
                  ELSE IF node.property.name = "define" THEN "lib"
                  ELSE ""
       IN Finish(
            IF /\ Parent.type = "AssignmentExpression"
               /\ node.object.type = "Identifier"
               /\ node.property.type = "Identifier"
               /\ sug # ""
            THEN renameToUid(Same, node.object.name, sug)
            ELSE Same)

\* ---------------------------------------------------- cleanup and return
\* context.removePath
removePath(root, path) ==
    LET Out(n) == n.type \in {"VariableDeclaration", "VariableDeclarator",
                              "ExpressionStatement", "FunctionDeclaration"}
        outPath == FindUp(root, path, Out)
    IN IF ~Reach(root, path) \/ outPath = NoPath THEN root
       ELSE RemoveNode(root, outPath)

RECURSIVE removePaths(_, _)
removePaths(root, paths) ==
    IF paths = <<>> THEN root
    ELSE removePaths(removePath(root, Head(paths)), Tail(paths))

\* the values of a map as a sequence
RECURSIVE Values(_)
Values(f) ==
    IF DOMAIN f = {} THEN <<>>
    ELSE LET k == CHOOSE x \in DOMAIN f : TRUE
         IN <<f[k]>> \o Values(Del(f, k))

\* (the same loops without the test of properties.length)
CleanupPaths_All(c) ==
    LET infos == Values(c.doubtedProxyPathInfos)
    IN Values(c.corePaths) \o c.coreRefPaths \o Values(c.proxyPaths)
       \o FlatSeq([i \in 1..Len(infos) |->
                     <<infos[i].path>> \o infos[i].originPaths])
\* the paths context.cleanup hands to removePath, loop after loop
CleanupPaths(c) ==
    LET infos == SelectSeq(Values(c.doubtedProxyPathInfos),
                           LAMBDA info : Len(info.properties) # 0)
    IN Values(c.corePaths) \o c.coreRefPaths \o Values(c.proxyPaths)
       \o FlatSeq([i \in 1..Len(infos) |->
                     <<infos[i].path>> \o infos[i].originPaths])

\* context.cleanup() after traverse(ast, visitorBeautify) returned
cleanup ==
    /\ phase = "beautify"
    /\ pos = Done
    /\ phase' = "cleanup"
    /\ ast' = removePaths(ast, CleanupPaths(cache))
    /\ stages' = Append(stages, "cleanup")
    /\ UNCHANGED <<pos, cache, global, bindings, uids, calls, input, again,
                   warned, outcome, output>>

\* generate(ast) and the return of the code; the locals of the call are gone
optimize_return ==
    /\ phase = "cleanup"
    /\ phase' = "idle"
    /\ output' = generate(ast)
    /\ outcome' = "returned"
    /\ ast' = NoProgram
    /\ cache' = EmptyCache
    /\ bindings' = EmptyMap
    /\ uids' = {}
    /\ UNCHANGED <<pos, global, calls, input, again, stages, warned>>

\* ------------------------------------------------------------ the program
Next ==
    \/ optimize_source
    \/ optimize_again
    \/ Detect_enter
    \/ Detect_SequenceExpression
    \/ Detect_StringLiteral
    \/ Detect_VariableDeclaration
    \/ traverse_visitor
    \/ visitor_enter
    \/ AssignmentExpression_exit
    \/ BinaryExpression_exit
    \/ CallExpression_exit
    \/ FunctionDeclaration_exit
    \/ FunctionExpression_exit
    \/ MemberExpression_exit
    \/ NumericLiteral_exit
    \/ ObjectExpression_exit
    \/ ObjectProperty_exit
    \/ StringLiteral_exit
    \/ SwitchStatement_exit
    \/ VariableDeclarator_exit
    \/ ConditionalExpression_exit
    \/ IfStatement_exit
    \/ UnaryExpression_exit
    \/ traverse_visitorBeautify
    \/ Beautify_Identifier
    \/ Beautify_MemberExpression
    \/ cleanup
    \/ optimize_return

Spec == Init /\ [][Next]_vars

\* ------------------------------------------------------------------ claims
Traversals == {"detect", "rewrite", "beautify"}
FullPipeline == <<"detect", "rewrite", "beautify", "cleanup">>

\* the tree of a program text: the raw form of a number is not part of it
RECURSIVE Ast(_)
Ast(n) ==
    IF n.type = "NumericLiteral" /\ n.raw # "nan" THEN [n EXCEPT !.raw = "dec"]
    ELSE MapChildren(n, LAMBDA c : Ast(c))

\* the tree with every property key in its identifier form
RECURSIVE KeyForm(_)
KeyForm(n) ==
    LET m == MapChildren(n, LAMBDA c : KeyForm(c))
    IN IF /\ n.type = "ObjectProperty"
          /\ n.key.type = "StringLiteral"
          /\ isValidVariableName(n.key.value)
       THEN [m EXCEPT !.key = Identifier(n.key.value), !.computed = FALSE]
       ELSE IF /\ n.type = "MemberExpression"
               /\ n.property.type = "StringLiteral"
               /\ isValidVariableName(n.property.value)
       THEN [m EXCEPT !.property = Identifier(n.property.value),
                      !.computed = FALSE]
       ELSE m

\* the nodes of a tree
NodesOf(root) ==
    LET ps == PathsFrom(root, <<>>)
    IN {Get(root, ps[i]) : i \in 1..Len(ps)}

\* an input with nothing the tool is meant to undo: no hex identifier, no
\* object whose keys are all 5 characters long and no empty object, no
\* function shaped like a decoder or a proxy of one, no base64 alphabet, no
\* while or switch statement
Clean(root) ==
    \A n \in NodesOf(root) :
        /\ n.type = "Identifier" => ~isHexVariableName(n.name)
        /\ n.type = "ObjectExpression" =>
              \E i \in 1..Len(n.properties) :
                  Len(getStringLiteralValue(n.properties[i].key)) # 5
        /\ n.type \notin {"FunctionDeclaration", "FunctionExpression",
                          "WhileStatement", "SwitchStatement"}
        /\ n.type = "StringLiteral" => n.value \notin {Base64a, Base64b}

\* C1: every call of optimize returns, and it returns after the three
\* traversals and the cleanup sweep ran once each, in that order.
C1_ReturnsAfterPipeline ==
    /\ outcome # "thrown"
    /\ outcome = "returned" => stages = FullPipeline

\* C2: optimize is idempotent: a call on the text the call before returned
\* returns the same tree.
C2_Idempotent ==
    (again /\ outcome = "returned") => Ast(output) = Ast(input)

\* C3: on a clean input the output differs from the input only in the
\* syntactic form of property keys.
C3_NoOpOnClean ==
    (outcome = "returned" /\ Clean(input)) =>
        Ast(KeyForm(output)) = Ast(KeyForm(input))

\* C4: no name put into the host evaluation scope by one optimize call is
\* defined there once the call is over, so a later call sees none of them.
C4_HostScopeDisposable ==
    (calls > 0 /\ phase = "idle") => DOMAIN global = DOMAIN Builtins

\* C5: no visitor arm throws out of a traversal: a step of a traversal
\* never ends the call.
C5_NoArmThrows ==
    [][(phase \in Traversals) => (phase' # "idle")]_vars

\* the evaluation of the arm about to run throws: the fold of a binary
\* expression, or the side-load for a decoder function declaration
FoldThrows ==
    /\ At("rewrite", "exit", {"BinaryExpression"})
    /\ Foldable(Node)
    /\ Eval(generate(Node), global, EmptyMap, HostFuel).v.k = "throw"
SideLoadThrows ==
    /\ At("detect", "enter", {"FunctionDeclaration"})
    /\ isEncryptFunction(ast, pos.path)
    /\ ~encryptSupport(ast, pos.path).scanThrows
    /\ encryptSupport(ast, pos.path).path1 # NoPath
    /\ globalEval(sideLoadCode(ast, pos.path), global).v.k = "throw"

\* C6: an evaluation in the host scope that throws is caught: the node or
\* decoder is skipped, nothing is recorded for it, and the pass continues.
C6_EvaluationWrapped ==
    [][(FoldThrows \/ SideLoadThrows) =>
          /\ phase' = phase
          /\ ast' = ast
          /\ cache' = cache]_vars

\* the conditions under which a call with an identifier callee is decoded,
\* read off the state
DecoderCallHere ==
    /\ Node.callee.name \in DOMAIN cache.corePaths
    /\ Node.callee.name \in DOMAIN global
    /\ ~(/\ Parent.type = "ReturnStatement"
         /\ Len(Flat(Get(ast, ParentPath(ast, ParentPath(ast, pos.path))).body)) = 1)
IdentifierCallHere ==
    /\ At("rewrite", "exit", {"CallExpression"})
    /\ Node.callee.type = "Identifier"
    /\ Node.callee.name # "eval"
LiteralKinds == {"number", "nan", "string", "boolean"}

\* C7 (first half, as stated and as amended): a call with an identifier
\* callee is replaced only if the callee is in corePaths and in the host
\* scope and the call is not the sole return of its block.
C7_OnlyIf ==
    (IdentifierCallHere /\ Get(ast', pos.path) # Node) => DecoderCallHere

\* C7 as stated: every such call whose evaluation succeeds is replaced by
\* the literal node of the result.
C7_EverySuccessReplaced ==
    [][/\ C7_OnlyIf
       /\ (IdentifierCallHere /\ DecoderCallHere
           /\ evalCall(Node).v.k # "throw") =>
              Get(ast', pos.path).type \in LiteralTypes]_vars

\* C7 as amended: every such call whose evaluation succeeds with a number,
\* a string or a boolean is replaced by the literal node of the result; a
\* call whose evaluation succeeds with any other value is left as it is.
C7_LiteralSuccessReplaced ==
    [][/\ C7_OnlyIf
       /\ (IdentifierCallHere /\ DecoderCallHere
           /\ evalCall(Node).v.k \in LiteralKinds) =>
              /\ Get(ast', pos.path).type \in LiteralTypes
              /\ Eval(Get(ast', pos.path), global, EmptyMap, HostFuel).v
                    = evalCall(Node).v
       /\ (IdentifierCallHere /\ DecoderCallHere
           /\ evalCall(Node).v.k \notin LiteralKinds \cup {"throw"}) =>
              Get(ast', pos.path) = Node]_vars
\* a decoder call has just been replaced by the string it decodes to
C7_Witness ==
    /\ phase = "rewrite"
    /\ "dec" \in DOMAIN cache.corePaths
    /\ Node = StringLiteral("hello")
    /\ Parent.type = "ExpressionStatement"

\* C8: when the evaluation of a decoder call throws, the error is logged,
\* the call and the Analysis Cache stay as they are and the traversal goes
\* on with the next node.
C8_ThrowLeavesCall ==
    [][(IdentifierCallHere /\ DecoderCallHere
        /\ evalCall(Node).v.k = "throw") =>
          /\ warned' = warned + 1
          /\ ast' = ast
          /\ cache' = cache
          /\ phase' = phase
          /\ pos' = Seek(ast, phase, StepEvent(ast, pos))]_vars
\* the rewriter goes on after a decoder call whose evaluation threw
C8_Witness ==
    /\ phase = "rewrite"
    /\ warned > 0
    /\ cache.corePaths # EmptyMap

\* C9: a name is a key of at most one of corePaths, proxyPaths and
\* doubtedProxyPathInfos.
C9_OneCollection ==
    /\ DOMAIN cache.corePaths \cap DOMAIN cache.proxyPaths = {}
    /\ DOMAIN cache.corePaths \cap DOMAIN cache.doubtedProxyPathInfos = {}
    /\ DOMAIN cache.proxyPaths \cap DOMAIN cache.doubtedProxyPathInfos = {}

\* C10: every entry of proxyPaths is an object expression all of whose
\* keys, the first included, are string or identifier keys of 5 characters.
C10_ProxyKeysFive ==
    \A name \in DOMAIN cache.proxyPaths :
        LET path == cache.proxyPaths[name]
            properties == Flat(Get(ast, path).properties)
        IN Reach(ast, path) =>
              /\ Get(ast, path).type = "ObjectExpression"
              /\ \A i \in 1..Len(properties) :
                    /\ properties[i].key.type \in {"Identifier", "StringLiteral"}
                    /\ Len(getStringLiteralValue(properties[i].key)) = 5

\* an assignment to a property of a doubted entry is about to be left
DoubtedAssignHere ==
    /\ At("rewrite", "exit", {"AssignmentExpression"})
    /\ Node.left.type = "MemberExpression"
    /\ Node.left.object.type = "Identifier"
    /\ Node.left.property.type \in {"StringLiteral", "Identifier"}
    /\ Node.left.object.name \in DOMAIN cache.doubtedProxyPathInfos

\* C11: every assignment obj.key = value to a doubted entry with a key of
\* 5 characters appends the property (key, value) to the entry and records
\* the assignment path as an origin; with a key of any other length it
\* removes the entry.
C11_AssignmentAccumulates ==
    [][DoubtedAssignHere =>
          LET name == Node.left.object.name
              key == getStringLiteralValue(Node.left.property)
              info == cache.doubtedProxyPathInfos[name]
              infos2 == cache'.doubtedProxyPathInfos
          IN IF Len(key) = 5
             THEN /\ name \in DOMAIN infos2
                  /\ infos2[name].properties =
                        Append(info.properties,
                               objectProperty(StringLiteral(key), Node.right, TRUE))
                  /\ infos2[name].originPaths = Append(info.originPaths, pos.path)
             ELSE name \notin DOMAIN infos2]_vars

\* C12: a name that a step inserts into corePaths is defined in the host
\* evaluation scope when the step is over.
C12_CoreNameDefined ==
    [][\A name \in DOMAIN (cache'.corePaths) \ DOMAIN cache.corePaths :
          name \in DOMAIN global']_vars

\* the exit arm of a function is about to run in the rewriter
HarvestHere ==
    \/ At("rewrite", "exit", {"FunctionDeclaration"})
    \/ At("rewrite", "exit", {"FunctionExpression"})

\* C13: the harvesting arms record a function in corePaths only when its
\* body is exactly `return coreFn(<args>)` with coreFn an identifier that is
\* defined in the host evaluation scope.
C13_HarvestOnlyIdentifierCallee ==
    [][(HarvestHere /\ phase' = "rewrite"
        /\ DOMAIN (cache'.corePaths) # DOMAIN cache.corePaths) =>
          LET body == Flat(Node.body.body)
          IN /\ Len(body) = 1
             /\ body[1].type = "ReturnStatement"
             /\ body[1].argument.type = "CallExpression"
             /\ body[1].argument.callee.type = "Identifier"
             /\ body[1].argument.callee.name \in DOMAIN global]_vars

\* elements of a sequence
Range(q) == {q[i] : i \in 1..Len(q)}
\* the paths the cache holds for deletion: those of corePaths, coreRefPaths
\* and proxyPaths, and the defining path and the assignment paths of every
\* doubted proxy with at least one accumulated property
CleanupTargets ==
    LET infos == cache.doubtedProxyPathInfos
        full == {n \in DOMAIN infos : Len(infos[n].properties) > 0}
    IN {cache.corePaths[n] : n \in DOMAIN cache.corePaths}
       \cup Range(cache.coreRefPaths)
       \cup {cache.proxyPaths[n] : n \in DOMAIN cache.proxyPaths}
       \cup {infos[n].path : n \in full}
       \cup UNION {Range(infos[n].originPaths) : n \in full}

ConditionalHere ==
    /\ At("rewrite", "exit", {"ConditionalExpression"})
    /\ Node.test.type = "BooleanLiteral"

\* C15: a conditional expression whose test is a boolean literal is replaced
\* in its own position by the taken branch, and the node that contains it is
\* kept.
C15_ConditionalInPlace ==
    [][ConditionalHere =>
         ast' = Put(ast, pos.path,
                    IF Node.test.value THEN Node.consequent ELSE Node.alternate)]_vars

\* the rewriter is about to leave an if statement with a boolean literal as
\* its test
IfHere ==
    /\ At("rewrite", "exit", {"IfStatement"})
    /\ Node.test.type = "BooleanLiteral"
\* the branch of the if statement that the test selects
TakenBranch == IF Node.test.value THEN Node.consequent ELSE Node.alternate

\* C16: an if statement whose test is a boolean literal is deleted when the
\* taken branch is missing, replaced by the statements of the taken block,
\* and otherwise replaced by the taken statement itself, whether it is a
\* nested if, a plain statement or a statement with a body of its own.
C16_IfTakenBranch ==
    [][IfHere =>
         ast' = Put(ast, pos.path,
                    IF ~Live(TakenBranch) THEN Removed
                    ELSE IF TakenBranch.type # "BlockStatement" THEN TakenBranch
                    ELSE IF Last(pos.path)[2] = 0 THEN TakenBranch
                    ELSE Inline(TakenBranch.body))]_vars

\* node types of a leaf value: the literals and the identifier
LeafTypes ==
    {"NumericLiteral", "StringLiteral", "BooleanLiteral", "NullLiteral",
     "BigIntLiteral", "Identifier"}
\* the property the member expression under the cursor names, among the
\* properties of the proxy object it reads; Null when there is none
ReadProperty ==
    IF /\ Node.object.type = "Identifier"
       /\ Node.property.type \in {"Identifier", "StringLiteral"}
       /\ isValidVariableName(Node.object.name)
       /\ getValidProxyPath(cache, Node.object.name)
    THEN getValidProxyPathProperty(ast, cache, Node.object.name,
                                   getStringLiteralValue(Node.property))
    ELSE Null

\* C17: the rewriter changes a member expression only when it is not the
\* left side of an assignment, reads a property found in a valid proxy
\* object, and the value of that property is a literal or an identifier;
\* the member expression is then replaced by that value.
C17_MemberInlinesLeaf ==
    [][(At("rewrite", "exit", {"MemberExpression"}) /\ ast' # ast) =>
         /\ ~(Parent.type = "AssignmentExpression" /\ Last(pos.path)[1] = "left")
         /\ ReadProperty # Null
         /\ ReadProperty.value.type \in LeafTypes
         /\ ast' = Put(ast, pos.path, ReadProperty.value)]_vars

\* the property a call obj.prop(args) under the cursor names, among the
\* properties of the proxy object it calls into; Null when there is none
CalledProperty ==
    IF /\ Node.callee.type = "MemberExpression"
       /\ Node.callee.object.type = "Identifier"
       /\ Node.callee.property.type \in {"StringLiteral", "Identifier"}
       /\ getValidProxyPath(cache, Node.callee.object.name)
    THEN getValidProxyPathProperty(ast, cache, Node.callee.object.name,
                                   getStringLiteralValue(Node.callee.property))
    ELSE Null
\* the node function-expression inlining puts in the place of the call, the
\* call itself when it produces none
HandedOver(inlined) == IF inlined = Null THEN Node ELSE inlined

\* C18: a call obj.prop(args) into a valid proxy object is replaced by the
\* value of the property when that value is a numeric, string or boolean
\* literal, is handed to function-expression inlining when the value is a
\* function expression, and is left unchanged for any other value.
C18_ProxyCallReplaced ==
    [][(At("rewrite", "exit", {"CallExpression"}) /\ CalledProperty # Null) =>
         ast' = Put(ast, pos.path,
                    CASE CalledProperty.value.type \in
                           {"NumericLiteral", "StringLiteral", "BooleanLiteral"} ->
                           CalledProperty.value
                      [] CalledProperty.value.type = "FunctionExpression" ->
                           HandedOver(getFunctionExpressionCallNode(
                                          CalledProperty.value, Node.arguments))
                      [] OTHER -> Node)]_vars

\* the rewriter is about to leave a call whose callee is a function
\* expression with a single return statement as its body
InlineHere ==
    /\ At("rewrite", "exit", {"CallExpression"})
    /\ Node.callee.type = "FunctionExpression"
    /\ Len(Flat(Node.callee.body.body)) = 1
    /\ Flat(Node.callee.body.body)[1].type = "ReturnStatement"
\* the replacement the table of return shapes gives for a call with the
\* arguments args of a function with the parameters params that returns
\* ret; Null where the table has no row
InlineTable(params, ret, args) ==
    LET Nth(k) == IF k > -1 /\ k < Len(args) THEN args[k + 1] ELSE Null
        CallNth(k) ==
            IF k > -1 /\ k < Len(args)
            THEN CallExpression(args[k + 1], Without(args, k + 1))
            ELSE Null
    IN CASE ret.type = "BinaryExpression" /\ Len(args) = 2 ->
              BinaryExpression(ret.operator, args[1], args[2])
         [] ret.type = "Identifier" -> Nth(indexOfArgument(params, ret.name))
         [] IsLiteralType(ret.type) -> ret
         [] ret.type = "CallExpression" /\ ret.callee.type = "Identifier" ->
              CallNth(indexOfArgument(params, ret.callee.name))
         [] /\ ret.type = "CallExpression"
            /\ ret.callee.type = "MemberExpression"
            /\ ret.callee.object.type = "Identifier"
            /\ ret.callee.property.type = "Identifier" ->
              CallExpression(ret.callee, args)
         [] OTHER -> Null
\* the node the table leaves at the place of the call
InlineResult(replacement) == IF replacement = Null THEN Node ELSE replacement

\* C19: the call of a function expression whose body is a single return is
\* replaced as the shape of the returned expression says (binary expression
\* of the two arguments, the argument passed for the returned parameter, the
\* returned literal, a call of the argument passed for the called parameter
\* with the remaining arguments, a call of obj.m with the arguments), and in
\* every other case the call is left unchanged.
C19_InlineByShape ==
    [][InlineHere =>
         ast' = Put(ast, pos.path,
                    InlineResult(InlineTable(
                        Node.callee.params,
                        Flat(Node.callee.body.body)[1].argument,
                        Node.arguments)))]_vars

\* the expression of the first statement of the program
FirstExpression(program) == Flat(program.body)[1].expression

\* C20: for the source `!0 + !"" + !false` the rewriter traversal ends with
\* the whole chain folded to the single numeric literal 3.
C20_ChainFoldsToThree ==
    [][(input = P_notSum /\ phase = "rewrite" /\ phase' = "beautify") =>
         /\ FirstExpression(ast).type = "NumericLiteral"
         /\ FirstExpression(ast).value = 3]_vars

\* the rewriter is about to leave a switch statement of the flattened
\* dispatch shape: it stands before a break in the block of a while loop
\* and switches on array[counter++], both names having a binding
FlatHere ==
    /\ At("rewrite", "exit", {"SwitchStatement"})
    /\ Parent.type = "BlockStatement"
    /\ Len(Flat(Parent.body)) = 2
    /\ Flat(Parent.body)[2].type = "BreakStatement"
    /\ Get(ast, ParentPath(ast, ParentPath(ast, pos.path))).type = "WhileStatement"
    /\ Node.discriminant.type = "MemberExpression"
    /\ Node.discriminant.object.type = "Identifier"
    /\ Node.discriminant.property.type = "UpdateExpression"
    /\ Node.discriminant.property.operator = "++"
    /\ Node.discriminant.property.argument.type = "Identifier"
    /\ Node.discriminant.object.name \in DOMAIN bindings
    /\ Node.discriminant.property.argument.name \in DOMAIN bindings
\* the pad and the separator found below the declarator of the array
FlatPad ==
    LastString(ast, bindings[Node.discriminant.object.name].path,
               "MemberExpression")
FlatSeparator ==
    LastString(ast, bindings[Node.discriminant.object.name].path,
               "CallExpression")
\* the consequents of the cases named by the labels, in the order of the
\* labels, without the continue statements; a label that no case tests for
\* adds nothing
RECURSIVE OrderedBodies(_, _)
OrderedBodies(labels, cases) ==
    IF labels = <<>> THEN <<>>
    ELSE LET hits == SelectSeq(cases,
                         LAMBDA c : /\ c.test.type = "StringLiteral"
                                    /\ c.test.value = Head(labels))
             body == IF hits = <<>> THEN <<>>
                     ELSE SelectSeq(Flat(hits[1].consequent),
                              LAMBDA item : item.type # "ContinueStatement")
         IN body \o OrderedBodies(Tail(labels), cases)
\* the tree without the declarations of the array and of the counter and
\* with the statements nodes in the place of the while loop
Unflattened(nodes) ==
    Put(Put(Put(ast,
                ParentPath(ast, bindings[Node.discriminant.object.name].path),
                Removed),
            ParentPath(ast, bindings[Node.discriminant.property.argument.name].path),
            Removed),
        ParentPath(ast, ParentPath(ast, pos.path)),
        Inline(nodes))

\* C21: at a switch statement of the flattened dispatch shape whose pad and
\* separator are both recovered, the while loop is replaced by the
\* consequents of the cases in the order of the labels of the pad, without
\* the continue statements, and the declarations of the array and of the
\* counter are removed; when the pad or the separator is not recovered the
\* tree is left unchanged.
C21_SwitchUnflattened ==
    [][FlatHere =>
         ast' = IF FlatPad # "" /\ FlatSeparator # ""
                THEN Unflattened(OrderedBodies(Split(FlatPad, FlatSeparator),
                                               Flat(Node.cases)))
                ELSE ast]_vars

\* a step inside one call of optimize
InCall == phase # "idle" /\ phase' # "idle"
\* the keys of corePaths and proxyPaths and the paths of coreRefPaths stay
CoreAndProxyKept ==
    /\ DOMAIN cache.corePaths \subseteq DOMAIN cache'.corePaths
    /\ DOMAIN cache.proxyPaths \subseteq DOMAIN cache'.proxyPaths
    /\ Prefix(cache.coreRefPaths, cache'.coreRefPaths)
\* the properties of the doubted entries that stay do not shrink
DoubtedPropertiesKept ==
    \A n \in DOMAIN cache.doubtedProxyPathInfos \cap
               DOMAIN cache'.doubtedProxyPathInfos :
        Prefix(cache.doubtedProxyPathInfos[n].properties,
               cache'.doubtedProxyPathInfos[n].properties)

\* C22: during a call of optimize the cache only grows: the keys of
\* corePaths, proxyPaths and doubtedProxyPathInfos and the paths of
\* coreRefPaths stay, and the properties of a doubted entry do not shrink.
C22_CacheOnlyGrows ==
    [][InCall =>
         /\ CoreAndProxyKept
         /\ DOMAIN cache.doubtedProxyPathInfos \subseteq
                DOMAIN cache'.doubtedProxyPathInfos
         /\ DoubtedPropertiesKept]_vars

\* C22, amended: during a call of optimize the keys of corePaths and
\* proxyPaths and the paths of coreRefPaths stay, and the properties of a
\* doubted entry do not shrink while the entry lives; a doubted entry is
\* deleted only by an assignment to a property of that object whose key is
\* not 5 characters long.
C22_GrowsUntilInvalidated ==
    [][InCall =>
         /\ CoreAndProxyKept
         /\ DoubtedPropertiesKept
         /\ \A n \in DOMAIN cache.doubtedProxyPathInfos \
                      DOMAIN cache'.doubtedProxyPathInfos :
               /\ DoubtedAssignHere
               /\ Node.left.object.name = n
               /\ Len(getStringLiteralValue(Node.left.property)) # 5]_vars
\* the assignment p.name = 2 has deleted the doubted entry of p, and the
\* rewriter is at the call sink(p) behind it
C22_Witness ==
    /\ input = P_assignName
    /\ At("rewrite", "exit", {"CallExpression"})
    /\ "p" \notin DOMAIN cache.doubtedProxyPathInfos

\* the function the string literal fingerprint looks for on the way up
WantedDecoder(n) ==
    \/ n.type = "FunctionDeclaration" /\ Len(n.params) = 2
    \/ /\ n.type = "VariableDeclaration"
       /\ Len(Flat(n.declarations)) = 1
       /\ Flat(n.declarations)[1].init.type = "FunctionExpression"
       /\ Len(Flat(n.declarations)[1].init.params) = 2
\* the path the detection step at the cursor calls addEncryptFunction with,
\* NoPath when it does not call it
AddTarget ==
    IF /\ At("detect", "enter", {"FunctionDeclaration", "FunctionExpression"})
       /\ isEncryptFunction(ast, pos.path)
    THEN pos.path
    ELSE IF /\ At("detect", "enter", {"StringLiteral"})
            /\ Node.value \in {Base64a, Base64b}
    THEN FindUp(ast, pos.path, WantedDecoder)
    ELSE NoPath
\* the name of the decoder at path
DecoderName(n) ==
    IF n.type = "FunctionDeclaration" THEN n.id.name
    ELSE IF n.type = "VariableDeclaration" THEN Flat(n.declarations)[1].id.name
    ELSE Get(ast, ParentPath(ast, AddTarget)).id.name
\* the state addEncryptFunction leaves for the support sup of the decoder
SideLoaded(sup) ==
    IF sup.path1 # NoPath
    THEN /\ global' = globalEval(sideLoadCode(ast, AddTarget), global).g
         /\ cache'.coreRefPaths =
                cache.coreRefPaths \o <<sup.path1>>
                \o (IF sup.path2 # NoPath THEN <<sup.path2>> ELSE <<>>)
         /\ DecoderName(Get(ast, AddTarget)) \in DOMAIN cache'.corePaths
    ELSE /\ global' = global
         /\ cache' = cache
         /\ phase' = "detect"

\* C23: a call of addEncryptFunction with a support array among the
\* previous siblings of the decoder hands the code to the host scope,
\* appends the support path, and the shuffler path when there is one, to
\* coreRefPaths and puts the decoder name in corePaths; a call without a
\* support array leaves corePaths, coreRefPaths and the host scope as they
\* are, and the detection goes on.
C23_AddEncryptFrame ==
    [][AddTarget # NoPath => SideLoaded(encryptSupport(ast, AddTarget))]_vars

\* the accumulated keys of a doubted entry
DoubtedKeys(info) ==
    [i \in 1..Len(info.properties) |-> info.properties[i].key]
\* a doubted entry as the two arms that write it keep it
DoubtedEntryOk(info) ==
    /\ info.prevKeyLength \in {0, 5}
    /\ Len(info.properties) = Len(info.originPaths)
    /\ \A i \in 1..Len(info.properties) :
          /\ DoubtedKeys(info)[i].type = "StringLiteral"
          /\ Len(DoubtedKeys(info)[i].value) = 5
          /\ \A j \in 1..Len(info.properties) :
                DoubtedKeys(info)[i].value = DoubtedKeys(info)[j].value => i = j
\* the cursor leaves the empty object of a declaration whose name has an entry
RedeclaredHere ==
    /\ At("rewrite", "exit", {"ObjectExpression"})
    /\ Parent.type = "VariableDeclarator"
    /\ Len(Flat(Node.properties)) = 0
    /\ Parent.id.name \in DOMAIN cache.doubtedProxyPathInfos

\* C24: every live entry of doubtedProxyPathInfos has a first key length of
\* 0 or 5, as many properties as assignment paths, and pairwise distinct
\* string keys of 5 characters; and the empty-object declaration of a name
\* that has an entry leaves the entry as it is.
C24_DoubtedEntryInvariant ==
    /\ [](\A n \in DOMAIN cache.doubtedProxyPathInfos :
            DoubtedEntryOk(cache.doubtedProxyPathInfos[n]))
    /\ [][RedeclaredHere =>
            /\ Parent.id.name \in DOMAIN cache'.doubtedProxyPathInfos
            /\ cache'.doubtedProxyPathInfos[Parent.id.name] =
                  cache.doubtedProxyPathInfos[Parent.id.name]]_vars
\* the entry of p holds both assignments after the second declaration of p
C24_Witness ==
    /\ input = P_redeclare
    /\ phase = "beautify"
    /\ "p" \in DOMAIN cache.doubtedProxyPathInfos
    /\ Len(cache.doubtedProxyPathInfos["p"].properties) = 2
    /\ Len(cache.doubtedProxyPathInfos["p"].originPaths) = 2
====
